---------------------------- MODULE Spec2Model ----------------------------
(***************************************************************************)
(* Conversation state store (src/src/utils/state_manager.py) and the turn  *)
(* handlers that drive it (src/src/core_processor_ew.py,                   *)
(* src/src/handlers/query_handler.py, src/src/handlers/selection_handler.py).*)
(*                                                                         *)
(* Python values are modelled as follows.                                  *)
(*   dict            a function whose DOMAIN is the set of keys present    *)
(*   Optional[T]     a set with at most one element: {} is None, {x} is x  *)
(*   list            a sequence                                            *)
(* The TTLCache of cachetools is modelled by user_states (the entries it   *)
(* physically holds) and expires (the expiry time of each entry): an entry *)
(* is visible while now < expires, and every insertion purges the expired  *)
(* entries and stamps the inserted key with now + ttl.                     *)
(***************************************************************************)
EXTENDS Integers, Sequences, FiniteSets, TLC

\* ------------------------------------------------------------------------
\* Bounds of the model
\* ------------------------------------------------------------------------
MaxTime == 2
effective_ttl == 2
MaxPool == 12
MaxTasks == 2

\* ------------------------------------------------------------------------
\* Constants of the program
\* ------------------------------------------------------------------------
STATE_IDLE == "idle"
STATE_WAITING_SELECTION == "waiting_selection"
STATE_CONTACT_CANDIDATE_DETAILS_FLOW == "contact_candidate_details_flow"
STEP_AWAITING_WORK_LOCATION == "awaiting_work_location"
STEP_AWAITING_JOB_CONTENT == "awaiting_job_content"
STEP_AWAITING_TIME_ARRANGEMENT == "awaiting_time_arrangement"

None == {}
Some(x) == {x}
IsNone(o) == o = {}
Val(o) == CHOOSE x \in o : TRUE

Keys == {"k1"}
ConcKeys == {"k1", "k2"}

VARIABLES
    user_states,    \* StateManager._user_states: the entries the cache holds
    expires,        \* expiry time of each held entry (TTLCache link.expires)
    now,            \* the cache timer
    last,           \* history: the last call, its arguments, what it found
    last_write,     \* history: time of the last write to each key's entry, -1
                    \* when the key was never written or was cleared since
    born,           \* history: time at which each key's current entry was
                    \* created (a write that found no live entry), -1 if none
    links,          \* TTLCache.__links: the held keys, least recently used
                    \* first; followed only where the cache can fill up
    call,           \* a function called on its own: its name and arguments
    ret,            \* what that call returned
    db,             \* the candidates the store returns for the query, in order
    store_down,     \* the query of the candidate store fails: it returns none
    scoring_config, \* config.get_scoring_rules(): None when absent or invalid
    frontend,       \* which pipeline serves the keys: "core" or "legacy"
    _last_sorted_candidates,  \* CoreProcessor._last_sorted_candidates
    turn,           \* history: the last turn, what it read, fetched and showed
    finds,          \* history: find_candidates calls since the last new query
    replies,        \* history: replies taken since the contact flow started
    tasks,          \* thread pool: the submitted turns and how far each got
    max_workers,    \* thread pool: the number of worker threads
    _lock,          \* StateManager._lock: the task inside a store call, if any
    sorted_of       \* history: for each key, sorted_candidates of the key's
                    \* own latest query (followed where two keys take turns)

storevars == <<user_states, expires, now, last, last_write, born, links>>
poolvars == <<tasks, max_workers, _lock>>
turnvars == <<db, store_down, scoring_config, frontend, _last_sorted_candidates, turn, finds, replies>>
callvars == <<call, ret>>
vars == <<user_states, expires, now, last, last_write, born, links, call, ret, db, store_down, scoring_config, frontend, _last_sorted_candidates, turn, finds, replies, tasks, max_workers, _lock, sorted_of>>

\* ------------------------------------------------------------------------
\* Python dict helpers
\* ------------------------------------------------------------------------
EmptyDict == [x \in {} |-> {}]
DictGet(d, k, default) == IF k \in DOMAIN d THEN d[k] ELSE default
DictSet(d, k, v) == [x \in (DOMAIN d) \cup {k} |-> IF x = k THEN v ELSE d[x]]
DictDel(d, k) == [x \in (DOMAIN d) \ {k} |-> d[x]]
Truthy(d) == DOMAIN d # {}

\* ------------------------------------------------------------------------
\* cachetools.TTLCache as StateManager uses it
\* ------------------------------------------------------------------------
\* (variant: the entry is still visible at its expiry time)
TTLCache_contains_late(us, ex, t, k) == k \in DOMAIN us /\ t <= ex[k]

\* key in cache: the entry is held and has not expired
TTLCache_contains(us, ex, t, k) == k \in DOMAIN us /\ t < ex[k]

\* cache.get(key, default)
TTLCache_get(us, ex, t, k, default) ==
    IF TTLCache_contains(us, ex, t, k) THEN us[k] ELSE default

\* cache[key] = value: expired entries are purged, the key is stamped now+ttl
TTLCache_setitem(us, ex, t, k, v) ==
    LET keep == {x \in DOMAIN us : t < ex[x]} \cup {k}
    IN  [data |-> [x \in keep |-> IF x = k THEN v ELSE us[x]],
         exp  |-> [x \in keep |-> IF x = k THEN t + effective_ttl ELSE ex[x]]]

\* del cache[key]
TTLCache_delitem(us, ex, t, k) ==
    [data |-> DictDel(us, k), exp |-> DictDel(ex, k)]


\* ------------------------------------------------------------------------
\* StateManager: each operator is one method, run under self._lock; it
\* returns the cache after the call as [data, exp]
\* ------------------------------------------------------------------------
Same(us, ex) == [data |-> us, exp |-> ex]

\* (variant: the entries are read from a plain dict that never expires them)
_get_user_data_unexpiring(us, ex, t, k) ==
    IF k \in DOMAIN us THEN Some(us[k]) ELSE None

\* _get_user_data: Optional[dict]
_get_user_data(us, ex, t, k) ==
    IF TTLCache_contains(us, ex, t, k) THEN Some(us[k]) ELSE None

\* `X if user_data else Y`: the entry was found and is a non-empty dict
Found(o) == ~IsNone(o) /\ Truthy(Val(o))

get_state(us, ex, t, k) ==
    LET user_data == _get_user_data(us, ex, t, k)
    IN  IF Found(user_data) THEN DictGet(Val(user_data), "state", STATE_IDLE)
        ELSE STATE_IDLE

get_last_results(us, ex, t, k) ==
    LET user_data == _get_user_data(us, ex, t, k)
    IN  IF Found(user_data) THEN DictGet(Val(user_data), "last_results", None)
        ELSE None

get_query_criteria(us, ex, t, k) ==
    LET user_data == _get_user_data(us, ex, t, k)
    IN  IF Found(user_data) THEN DictGet(Val(user_data), "query_criteria", None)
        ELSE None

get_parsed_query_data(us, ex, t, k) ==
    LET user_data == _get_user_data(us, ex, t, k)
    IN  IF Found(user_data) THEN DictGet(Val(user_data), "parsed_query_data", None)
        ELSE None

get_query_offset(us, ex, t, k) ==
    LET user_data == _get_user_data(us, ex, t, k)
    IN  IF Found(user_data) THEN DictGet(Val(user_data), "query_offset", 0)
        ELSE 0

get_has_more(us, ex, t, k) ==
    LET user_data == _get_user_data(us, ex, t, k)
    IN  IF Found(user_data) THEN DictGet(Val(user_data), "has_more", FALSE)
        ELSE FALSE

get_contact_flow_state(us, ex, t, k) ==
    LET user_data == _get_user_data(us, ex, t, k)
    IN  IF Found(user_data)
           /\ DictGet(Val(user_data), "state", "") = STATE_CONTACT_CANDIDATE_DETAILS_FLOW
        THEN DictGet(Val(user_data), "contact_flow_data", None)
        ELSE None

store_parsed_query_data(us, ex, t, k, parsed_data) ==
    LET d0 == TTLCache_get(us, ex, t, k, EmptyDict)
        d1 == DictSet(d0, "parsed_query_data", parsed_data)
        d2 == IF "state" \notin DOMAIN d1 THEN DictSet(d1, "state", STATE_IDLE) ELSE d1
    IN  TTLCache_setitem(us, ex, t, k, d2)

cache_results(us, ex, t, k, results) ==
    LET d0 == TTLCache_get(us, ex, t, k, EmptyDict)
        d1 == DictSet(d0, "last_results", results)
        d2 == IF "state" \notin DOMAIN d1 THEN DictSet(d1, "state", STATE_IDLE) ELSE d1
    IN  TTLCache_setitem(us, ex, t, k, d2)

update_state(us, ex, t, k, state) ==
    LET d0 == TTLCache_get(us, ex, t, k, EmptyDict)
    IN  TTLCache_setitem(us, ex, t, k, DictSet(d0, "state", state))

\* (variant: the whole cache is emptied)
clear_state_purging(us, ex, t, k) ==
    IF TTLCache_contains(us, ex, t, k) THEN Same(EmptyDict, EmptyDict)
    ELSE Same(us, ex)

clear_state(us, ex, t, k) ==
    IF TTLCache_contains(us, ex, t, k) THEN TTLCache_delitem(us, ex, t, k)
    ELSE Same(us, ex)

\* (variant: parsed_query_data is assigned whatever was passed, None included)
update_state_and_cache_results_overwriting(us, ex, t, k, state, results, query_criteria, parsed_query_data, current_offset, has_more) ==
    LET d0 == TTLCache_get(us, ex, t, k, EmptyDict)
        d1 == DictSet(d0, "state", state)
        d2 == DictSet(d1, "last_results", results)
        d3 == DictSet(d2, "query_criteria", query_criteria)
        d4 == DictSet(d3, "parsed_query_data", parsed_query_data)
        d5 == IF ~IsNone(current_offset)
                 THEN DictSet(d4, "query_offset", Val(current_offset))
              ELSE IF state = STATE_IDLE \/ IsNone(results)
                 THEN DictSet(d4, "query_offset", 0)
              ELSE d4
        d6 == IF ~IsNone(has_more)
                 THEN DictSet(d5, "has_more", Val(has_more))
              ELSE DictSet(d5, "has_more", ~IsNone(results) /\ Len(Val(results)) > 0)
    IN  TTLCache_setitem(us, ex, t, k, d6)

update_state_and_cache_results(us, ex, t, k, state, results, query_criteria, parsed_query_data, current_offset, has_more) ==
    LET d0 == TTLCache_get(us, ex, t, k, EmptyDict)
        existing_parsed_data == DictGet(d0, "parsed_query_data", None)
        d1 == DictSet(d0, "state", state)
        d2 == DictSet(d1, "last_results", results)
        d3 == DictSet(d2, "query_criteria", query_criteria)
        d4 == IF ~IsNone(parsed_query_data)
                 THEN DictSet(d3, "parsed_query_data", parsed_query_data)
              ELSE IF ~IsNone(existing_parsed_data)
                 THEN DictSet(d3, "parsed_query_data", existing_parsed_data)
              ELSE d3
        d5 == IF ~IsNone(current_offset)
                 THEN DictSet(d4, "query_offset", Val(current_offset))
              ELSE IF state = STATE_IDLE \/ IsNone(results)
                 THEN DictSet(d4, "query_offset", 0)
              ELSE d4
        d6 == IF ~IsNone(has_more)
                 THEN DictSet(d5, "has_more", Val(has_more))
              ELSE DictSet(d5, "has_more", ~IsNone(results) /\ Len(Val(results)) > 0)
    IN  TTLCache_setitem(us, ex, t, k, d6)

\* (variant: an omitted collected_info keeps the answers already collected)
set_contact_flow_state_merging(us, ex, t, k, step, candidate_external_userid, candidate_name, hr_sender_userid, collected_info) ==
    LET d0 == TTLCache_get(us, ex, t, k, EmptyDict)
        old == IF "contact_flow_data" \in DOMAIN d0
               THEN DictGet(Val(d0["contact_flow_data"]), "collected_info", EmptyDict)
               ELSE EmptyDict
        d1 == DictSet(d0, "state", STATE_CONTACT_CANDIDATE_DETAILS_FLOW)
        flow == [flow |-> STATE_CONTACT_CANDIDATE_DETAILS_FLOW,
                 step |-> step,
                 candidate_external_userid |-> candidate_external_userid,
                 candidate_name |-> candidate_name,
                 hr_sender_userid |-> hr_sender_userid,
                 collected_info |-> IF ~IsNone(collected_info)
                                    THEN Val(collected_info) ELSE old]
        d2 == DictSet(d1, "contact_flow_data", Some(flow))
    IN  TTLCache_setitem(us, ex, t, k, d2)

set_contact_flow_state(us, ex, t, k, step, candidate_external_userid, candidate_name, hr_sender_userid, collected_info) ==
    LET d0 == TTLCache_get(us, ex, t, k, EmptyDict)
        d1 == DictSet(d0, "state", STATE_CONTACT_CANDIDATE_DETAILS_FLOW)
        flow == [flow |-> STATE_CONTACT_CANDIDATE_DETAILS_FLOW,
                 step |-> step,
                 candidate_external_userid |-> candidate_external_userid,
                 candidate_name |-> candidate_name,
                 hr_sender_userid |-> hr_sender_userid,
                 collected_info |-> IF ~IsNone(collected_info)
                                    THEN Val(collected_info) ELSE EmptyDict]
        d2 == DictSet(d1, "contact_flow_data", Some(flow))
    IN  TTLCache_setitem(us, ex, t, k, d2)

\* (variant: the entry is fetched with a default and the phase is not
\* looked at, so a key outside the contact flow gets a step written too)
update_contact_flow_step_and_info_creating(us, ex, t, k, new_step, info_key_to_update, info_value) ==
    LET d0 == TTLCache_get(us, ex, t, k, EmptyDict)
        flow0 == IF "contact_flow_data" \in DOMAIN d0 /\ ~IsNone(d0["contact_flow_data"])
                 THEN Val(d0["contact_flow_data"]) ELSE EmptyDict
        flow1 == DictSet(flow0, "step", new_step)
        flow2 == IF ~IsNone(info_key_to_update) /\ Val(info_key_to_update) # ""
                    /\ ~IsNone(info_value)
                 THEN DictSet(flow1, "collected_info",
                          DictSet(DictGet(flow1, "collected_info", EmptyDict),
                                  Val(info_key_to_update), Val(info_value)))
                 ELSE flow1
    IN  TTLCache_setitem(us, ex, t, k, DictSet(d0, "contact_flow_data", Some(flow2)))

\* (variant: the entry is changed in place and never assigned back to the
\* cache, so its expiry time stays as it was)
update_contact_flow_step_and_info_inplace(us, ex, t, k, new_step, info_key_to_update, info_value) ==
    LET user_data == _get_user_data(us, ex, t, k)
    IN  IF ~Found(user_data)
           \/ DictGet(Val(user_data), "state", "") # STATE_CONTACT_CANDIDATE_DETAILS_FLOW
        THEN Same(us, ex)
        ELSE
          LET d0 == Val(user_data)
              flow0 == IF "contact_flow_data" \in DOMAIN d0 /\ ~IsNone(d0["contact_flow_data"])
                       THEN Val(d0["contact_flow_data"]) ELSE EmptyDict
              flow1 == DictSet(flow0, "step", new_step)
              flow2 == IF ~IsNone(info_key_to_update) /\ Val(info_key_to_update) # ""
                          /\ ~IsNone(info_value)
                       THEN DictSet(flow1, "collected_info",
                                DictSet(DictGet(flow1, "collected_info", EmptyDict),
                                        Val(info_key_to_update), Val(info_value)))
                       ELSE flow1
          IN  Same(DictSet(us, k, DictSet(d0, "contact_flow_data", Some(flow2))), ex)

update_contact_flow_step_and_info(us, ex, t, k, new_step, info_key_to_update, info_value) ==
    LET user_data == _get_user_data(us, ex, t, k)
    IN  IF ~Found(user_data)
           \/ DictGet(Val(user_data), "state", "") # STATE_CONTACT_CANDIDATE_DETAILS_FLOW
        THEN Same(us, ex)
        ELSE
          LET d0 == Val(user_data)
              flow0 == IF "contact_flow_data" \in DOMAIN d0 /\ ~IsNone(d0["contact_flow_data"])
                       THEN Val(d0["contact_flow_data"]) ELSE EmptyDict
              flow1 == DictSet(flow0, "step", new_step)
              flow2 == IF ~IsNone(info_key_to_update) /\ Val(info_key_to_update) # ""
                          /\ ~IsNone(info_value)
                       THEN DictSet(flow1, "collected_info",
                                DictSet(DictGet(flow1, "collected_info", EmptyDict),
                                        Val(info_key_to_update), Val(info_value)))
                       ELSE flow1
          IN  TTLCache_setitem(us, ex, t, k, DictSet(d0, "contact_flow_data", Some(flow2)))


\* ------------------------------------------------------------------------
\* Arguments the store is called with
\* ------------------------------------------------------------------------
StateArgs == {STATE_IDLE, STATE_WAITING_SELECTION, STATE_CONTACT_CANDIDATE_DETAILS_FLOW}
\* (results, query_criteria, current_offset, has_more) as callers pass them:
\* all omitted (selection_handler.py:612), all given (core_processor_ew.py:488),
\* and offset and has_more omitted with a non-empty and with an empty list
PageArgs == { <<None, None, None, None>>, <<Some(<<"c1">>), Some("q1"), Some(5), Some(TRUE)>>, <<Some(<<"c1">>), Some("q1"), None, None>>, <<Some(<<>>), None, None, None>> }
ParsedArgs == {None, Some("p1")}
NoArgs == [none |-> TRUE]
NoCall == [fn |-> ""]

\* the record kept of a turn, before the turn fills it in
NoTurn(kind, k) ==
    [kind |-> kind, key |-> k, text |-> "", parse |-> "", step |-> "",
     fetched |-> <<>>, pool |-> <<>>, offset |-> 0, limit |-> 0, page |-> <<>>,
     committed |-> FALSE, finds |-> 0, has_more |-> FALSE, wrote |-> FALSE,
     invite |-> None, send_ok |-> TRUE, raised |-> FALSE, raced |-> FALSE,
     notice |-> "", selected |-> 0, cand |-> None]

\* ------------------------------------------------------------------------
\* The store driven call by call
\* ------------------------------------------------------------------------
Init ==
    /\ user_states = EmptyDict
    /\ expires = EmptyDict
    /\ now = 0
    /\ last = [op |-> "init", key |-> "", arg |-> NoArgs, pre |-> NoArgs]
    /\ last_write = [k \in Keys |-> -1]
    /\ born = [k \in Keys |-> -1]
    /\ links = <<>>
    /\ call = NoCall
    /\ ret = NoCall
    /\ db = <<>>
    /\ store_down = FALSE
    /\ scoring_config = None
    /\ frontend = "core"
    /\ _last_sorted_candidates = <<>>
    /\ turn = NoTurn("init", "")
    /\ finds = 0
    /\ replies = <<>>
    /\ tasks = <<>>
    /\ max_workers = 1
    /\ _lock = None
    /\ sorted_of = [k \in ConcKeys |-> <<>>]

\* what a call finds before it runs: whether the key has a live entry, its
\* phase, and which contact-flow answers it holds
Answers(us, ex, t, k) ==
    LET flow == get_contact_flow_state(us, ex, t, k)
    IN  IF IsNone(flow) THEN {} ELSE DOMAIN DictGet(Val(flow), "collected_info", EmptyDict)

Seen(us, ex, t, k) ==
    [live |-> TTLCache_contains(us, ex, t, k), state |-> get_state(us, ex, t, k), answers |-> Answers(us, ex, t, k)]

\* what a call leaves behind: the cache, and the history of the call
Called(op, k, arg, res, effect) ==
    /\ user_states' = res.data
    /\ expires' = res.exp
    /\ last' = [op |-> op, key |-> k, arg |-> arg,
                pre |-> Seen(user_states, expires, now, k)]
    /\ last_write' = CASE effect = "write" -> [last_write EXCEPT ![k] = now]
                        [] effect = "clear" -> [last_write EXCEPT ![k] = -1]
                        [] OTHER -> last_write
    /\ born' = CASE effect = "write" /\ ~TTLCache_contains(user_states, expires, now, k)
                       -> [born EXCEPT ![k] = now]
                  [] effect = "clear" -> [born EXCEPT ![k] = -1]
                  [] OTHER -> born
    /\ UNCHANGED <<now, links, turnvars, poolvars, callvars, sorted_of>>

\* time.monotonic() advances
Tick ==
    /\ now < MaxTime
    /\ now' = now + 1
    /\ last' = [op |-> "tick", key |-> "", arg |-> NoArgs, pre |-> NoArgs]
    /\ UNCHANGED <<user_states, expires, last_write, born, links, turnvars, poolvars, callvars, sorted_of>>

\* the cache after _get_user_data: a lookup leaves it as it was
_get_user_data_cache(us, ex, t, k) == Same(us, ex)

\* the seven getters, called on one key
Getters ==
    \E k \in Keys :
        Called("get", k,
               [state |-> get_state(user_states, expires, now, k),
                last_results |-> get_last_results(user_states, expires, now, k),
                query_criteria |-> get_query_criteria(user_states, expires, now, k),
                parsed_query_data |-> get_parsed_query_data(user_states, expires, now, k),
                query_offset |-> get_query_offset(user_states, expires, now, k),
                has_more |-> get_has_more(user_states, expires, now, k),
                contact_flow |-> get_contact_flow_state(user_states, expires, now, k)],
               _get_user_data_cache(user_states, expires, now, k), "read")

StoreParsedQueryData ==
    \E k \in Keys, p \in {Some("p1")} :
        Called("store_parsed_query_data", k, [parsed_data |-> p],
               store_parsed_query_data(user_states, expires, now, k, p), "write")

CacheResults ==
    \E k \in Keys, r \in {Some(<<"c1">>)} :
        Called("cache_results", k, [results |-> r],
               cache_results(user_states, expires, now, k, r), "write")

UpdateState ==
    \E k \in Keys, s \in StateArgs :
        Called("update_state", k, [state |-> s],
               update_state(user_states, expires, now, k, s), "write")

ClearState ==
    \E k \in Keys :
        Called("clear_state", k, NoArgs,
               clear_state(user_states, expires, now, k), "clear")

UpdateStateAndCacheResults ==
    \E k \in Keys, s \in StateArgs, a \in PageArgs, p \in ParsedArgs :
        Called("update_state_and_cache_results", k,
               [state |-> s, results |-> a[1], query_criteria |-> a[2],
                parsed_query_data |-> p, current_offset |-> a[3], has_more |-> a[4]],
               update_state_and_cache_results(user_states, expires, now, k, s, a[1], a[2], p, a[3], a[4]),
               "write")

SetContactFlowState ==
    \E k \in Keys, st \in {STEP_AWAITING_WORK_LOCATION}, c \in {"c1"}, ci \in {None, Some([work_location |-> "b"])} :
        Called("set_contact_flow_state", k,
               [step |-> st, candidate |-> c, collected_info |-> ci],
               set_contact_flow_state(user_states, expires, now, k, st, c, c, k, ci),
               "write")

\* the call writes only when it finds the key in the contact flow
InContactFlow(us, ex, t, k) ==
    get_state(us, ex, t, k) = STATE_CONTACT_CANDIDATE_DETAILS_FLOW

UpdateContactFlowStepAndInfo ==
    \E k \in Keys, st \in {STEP_AWAITING_JOB_CONTENT}, ik \in {None, Some("job_content")}, iv \in {None, Some("a")} :
        Called("update_contact_flow_step_and_info", k,
               [new_step |-> st, info_key_to_update |-> ik, info_value |-> iv],
               update_contact_flow_step_and_info(user_states, expires, now, k, st, ik, iv),
               IF InContactFlow(user_states, expires, now, k) THEN "write" ELSE "none")

Next ==
    \/ Tick
    \/ Getters
    \/ StoreParsedQueryData
    \/ CacheResults
    \/ UpdateState
    \/ ClearState
    \/ UpdateStateAndCacheResults
    \/ SetContactFlowState
    \/ UpdateContactFlowStepAndInfo

Spec == Init /\ [][Next]_vars

\* ------------------------------------------------------------------------
\* Candidate store, scoring and paging
\* ------------------------------------------------------------------------
INITIAL_CANDIDATE_POOL_SIZE == 30
TOP_N_CANDIDATES == 5
initial_pool_size == 30
display_limit == 5

Min(a, b) == IF a < b THEN a ELSE b
Range(s) == {s[i] : i \in 1..Len(s)}

\* (variant: the slice starts one element late)
Slice_late(s, a, b) ==
    LET lo == Min(a + 1, Len(s))
        hi == Min(b, Len(s))
    IN  IF hi <= lo THEN <<>> ELSE SubSeq(s, lo + 1, hi)

\* s[a:b] for 0 <= a <= b
Slice(s, a, b) ==
    LET lo == Min(a, Len(s))
        hi == Min(b, Len(s))
    IN  IF hi <= lo THEN <<>> ELSE SubSeq(s, lo + 1, hi)

\* the result sets the candidate store can hold for the query: candidates
\* are numbered in the order the store returns them
PoolSizes == {0, 3, 10, MaxPool}
Pools == {[i \in 1..n |-> i] : n \in PoolSizes}

\* collection.find(query).skip(offset).limit(limit); a failed query gives []
find_candidates(d, limit, offset) == Slice(d, offset, offset + limit)

\* ------------------------------------------------------------------------
\* Values of the scoring configuration, the parsed query and the candidate
\* documents: each carries its Python type. Scores are counted in
\* ten-thousandths, the parameters of a dimension in hundredths.
\* ------------------------------------------------------------------------
Scale == 10000
PyNone == <<"none">>
PyBool(b) == <<"bool", b>>
PyNum(n) == <<"num", n>>
PyStr(x) == <<"str", x>>
PyPath(x) == <<"path", x>>
PyList(x) == <<"list", x>>
PyDict(f) == <<"dict", f>>

\* bool(value)
PyTruthy(x) ==
    CASE x[1] = "none" -> FALSE
      [] x[1] = "bool" -> x[2]
      [] x[1] = "num" -> x[2] # 0
      [] x[1] = "str" -> x[2] # ""
      [] x[1] = "path" -> x[2] # <<>>
      [] x[1] = "list" -> x[2] # <<>>
      [] OTHER -> DOMAIN x[2] # {}

\* what an expression evaluates to, or that it raised
Ok(x) == [raised |-> FALSE, value |-> x]
Raise == [raised |-> TRUE, value |-> 0]
\* a function that returned None where a number is expected
ReturnsNone == [raised |-> FALSE, value |-> 0, none |-> TRUE]

\* value.get(key, default): AttributeError when value is not a dict
PyGet(x, key, default) ==
    IF x[1] # "dict" THEN Raise
    ELSE IF key \in DOMAIN x[2] THEN Ok(x[2][key]) ELSE Ok(default)

\* a str that holds a dotted path is the sequence of its segments (PyPath).
\* path.replace(prefix, ''):
\* every run of the prefix's segments that another segment follows is removed
RECURSIVE replace(_, _)
replace(path, prefix) ==
    IF Len(path) <= Len(prefix) THEN path
    ELSE IF SubSeq(path, 1, Len(prefix)) = prefix
         THEN replace(SubSeq(path, Len(prefix) + 1, Len(path)), prefix)
         ELSE <<Head(path)>> \o replace(Tail(path), prefix)

\* _safe_get_value(data, path, default=None)
RECURSIVE _safe_get_value_from(_, _)
_safe_get_value_from(value, keys) ==
    IF keys = <<>> THEN value
    ELSE IF value[1] # "dict" THEN PyNone
    ELSE IF Head(keys) \notin DOMAIN value[2] THEN PyNone
    ELSE IF value[2][Head(keys)][1] = "none" THEN PyNone
    ELSE _safe_get_value_from(value[2][Head(keys)], Tail(keys))

_safe_get_value(data, path) ==
    IF ~PyTruthy(data) \/ path = <<>> THEN PyNone
    ELSE _safe_get_value_from(data, path)

\* float(value): a number, or a ValueError or TypeError
IsFloatable(x) == x[1] = "num"

Max(a, b) == IF a > b THEN a ELSE b

\* params.get(name, default) of a number given in hundredths
Param(params, name, default) == IF name \in DOMAIN params[2] THEN params[2][name] ELSE PyNum(default)

\* str.lower() on the keywords used here
Lower(x) == CASE x = "Python" -> "python" [] x = "Shanghai" -> "shanghai" [] OTHER -> x

\* str(value) of a number or a string
Str(x) == IF x[1] = "num" THEN ToString(x[2]) ELSE x[2]

\* set(str(item).lower() for item in list if item)
LowerSet(list) == {Lower(list[2][i]) : i \in {j \in 1..Len(list[2]) : list[2][j] # ""}}

\* (variant: the score above the requirement is capped at max_score)
calculate_range_match_score_capped(required_value, candidate_value, params) ==
    IF params[1] # "dict" THEN Raise
    ELSE
      LET base_score == Param(params, "exact_match_score", 100)[2]
          tolerance == Param(params, "tolerance_years", 0)[2]
          decay_rate == Param(params, "score_decay_rate", 10)[2]
          min_score == Param(params, "min_score", 0)[2] * 100
          bonus_rate == Param(params, "bonus_rate_per_year", 5)[2]
          max_factor == Param(params, "max_score_factor", 150)[2]
          max_score == base_score * max_factor
      IN  IF required_value[1] = "none" \/ candidate_value[1] = "none" THEN Ok(min_score)
          ELSE IF ~IsFloatable(required_value) \/ ~IsFloatable(candidate_value) THEN Ok(min_score)
          ELSE
            LET req_val == required_value[2]
                cand_val == candidate_value[2]
            IN  IF cand_val >= req_val
                THEN Ok(Min(max_score, base_score * 100 + (cand_val - req_val) * bonus_rate * base_score))
                ELSE IF req_val - cand_val <= tolerance
                THEN Ok(Max(min_score, base_score * 100 - (req_val - cand_val) * decay_rate * base_score))
                ELSE LET score_at_tolerance_edge == base_score * 100 - tolerance * decay_rate * base_score
                         additional_decay_years == (req_val - cand_val) - tolerance
                     IN  Ok(Max(min_score, score_at_tolerance_edge - (additional_decay_years * decay_rate * 15 * base_score) \div 10))

\* calculate_range_match_score(required_value, candidate_value, params)
calculate_range_match_score(required_value, candidate_value, params) ==
    IF params[1] # "dict" THEN Raise
    ELSE
      LET base_score == Param(params, "exact_match_score", 100)[2]
          tolerance == Param(params, "tolerance_years", 0)[2]
          decay_rate == Param(params, "score_decay_rate", 10)[2]
          min_score == Param(params, "min_score", 0)[2] * 100
          bonus_rate == Param(params, "bonus_rate_per_year", 5)[2]
          max_factor == Param(params, "max_score_factor", 150)[2]
          max_score == base_score * max_factor
      IN  IF required_value[1] = "none" \/ candidate_value[1] = "none" THEN Ok(min_score)
          ELSE IF ~IsFloatable(required_value) \/ ~IsFloatable(candidate_value) THEN Ok(min_score)
          ELSE
            LET req_val == required_value[2]
                cand_val == candidate_value[2]
            IN  IF cand_val >= req_val
                THEN Ok(base_score * 100 + (cand_val - req_val) * bonus_rate * base_score)
                ELSE IF req_val - cand_val <= tolerance
                THEN Ok(Max(min_score, base_score * 100 - (req_val - cand_val) * decay_rate * base_score))
                ELSE LET score_at_tolerance_edge == base_score * 100 - tolerance * decay_rate * base_score
                         additional_decay_years == (req_val - cand_val) - tolerance
                     IN  Ok(Max(min_score, score_at_tolerance_edge - (additional_decay_years * decay_rate * 15 * base_score) \div 10))

\* calculate_keyword_overlap_score(required_list, candidate_list, params)
calculate_keyword_overlap_score(required_list, candidate_list, params) ==
    IF params[1] # "dict" THEN Raise
    ELSE IF PyTruthy(required_list) /\ required_list[1] # "list" THEN Raise
    ELSE
      LET score_per_match == Param(params, "score_per_match", 100)[2]
          default_max_score == IF PyTruthy(required_list) THEN Len(required_list[2]) * score_per_match * 100 ELSE 0
          max_score == IF "max_score" \in DOMAIN params[2] THEN params[2]["max_score"] ELSE <<"num4", default_max_score>>
      IN  IF ~PyTruthy(required_list) THEN Ok(Scale)
          ELSE IF ~PyTruthy(candidate_list) THEN Ok(0)
          ELSE IF candidate_list[1] # "list" THEN Ok(0)
          ELSE
            LET matches == LowerSet(required_list) \cap LowerSet(candidate_list)
                score == Cardinality(matches) * score_per_match * 100
            IN  IF max_score[1] = "none" THEN Raise
                ELSE Ok(Min(score, IF max_score[1] = "num4" THEN max_score[2] ELSE max_score[2] * 100))

\* calculate_exact_match_score(required_value, candidate_value, params)
calculate_exact_match_score(required_value, candidate_value, params) ==
    IF params[1] # "dict" THEN Raise
    ELSE
      LET match_score == Param(params, "match_score", 100)[2] * 100
          mismatch_score == Param(params, "mismatch_score", 0)[2] * 100
          case_sensitive == IF "case_sensitive" \in DOMAIN params[2] THEN PyTruthy(params[2]["case_sensitive"]) ELSE FALSE
      IN  IF required_value[1] = "none" THEN Ok(match_score)
          ELSE IF candidate_value[1] = "none" THEN Ok(mismatch_score)
          ELSE
            LET req_str == Str(required_value)
                cand_str == Str(candidate_value)
                match == IF case_sensitive THEN req_str = cand_str
                         ELSE Lower(req_str) = Lower(cand_str)
            IN  Ok(IF match THEN match_score ELSE mismatch_score)

\* calculate_keyword_presence_score(required_list, candidate_list, params)
calculate_keyword_presence_score(required_list, candidate_list, params) ==
    IF params[1] # "dict" THEN Raise
    ELSE
      LET score_per_match == Param(params, "score_per_match", 100)[2]
          max_score == Param(params, "max_score", 100)
      IN  IF ~PyTruthy(required_list) THEN (IF max_score[1] = "none" THEN ReturnsNone ELSE Ok(max_score[2] * 100))
          ELSE IF ~PyTruthy(candidate_list) THEN Ok(0)
          ELSE IF required_list[1] # "list" \/ candidate_list[1] # "list" THEN Ok(0)
          ELSE
            LET matches == LowerSet(required_list) \cap LowerSet(candidate_list)
                score == Cardinality(matches) * score_per_match * 100
            IN  IF max_score[1] = "none" THEN Ok(score) ELSE Ok(Min(score, max_score[2] * 100))

\* SCORE_FUNCTION_MAP
SCORE_FUNCTION_MAP == {"range_match", "keyword_overlap", "exact_match", "keyword_presence"}
score_func(logic_type, required_value, candidate_value, params) ==
    CASE logic_type = "range_match" -> calculate_range_match_score(required_value, candidate_value, params)
      [] logic_type = "keyword_overlap" -> calculate_keyword_overlap_score(required_value, candidate_value, params)
      [] logic_type = "exact_match" -> calculate_exact_match_score(required_value, candidate_value, params)
      [] OTHER -> calculate_keyword_presence_score(required_value, candidate_value, params)

\* (variant: a dimension is scored whether or not it is enabled)
calculate_score_for_dimension_always(dimension_config, query_criteria, candidate_data) ==
    LET logic_config == PyGet(dimension_config, "logic", PyNone)
    IN  IF logic_config.raised THEN Raise
        ELSE IF ~PyTruthy(logic_config.value) THEN Ok(0)
        ELSE IF logic_config.value[1] # "dict" THEN Raise
        ELSE
          LET logic == logic_config.value
              logic_type == PyGet(logic, "type", PyNone).value
              req_path == PyGet(logic, "required_value_path", PyNone).value
              cand_path == PyGet(logic, "candidate_value_path", PyNone).value
              params == PyGet(logic, "params", PyDict(EmptyDict)).value
              weight == PyGet(dimension_config, "weight", PyNum(0)).value
          IN  IF (PyTruthy(req_path) /\ req_path[1] # "path") \/ (PyTruthy(cand_path) /\ cand_path[1] # "path")
              THEN Raise
              ELSE
                LET required_value == IF PyTruthy(req_path) THEN _safe_get_value(query_criteria, replace(req_path[2], <<"query", "criteria">>)) ELSE PyNone
                    candidate_value == IF PyTruthy(cand_path) THEN _safe_get_value(candidate_data, replace(cand_path[2], <<"candidate">>)) ELSE PyNone
                    raw_score == score_func(IF logic_type[1] = "str" THEN logic_type[2] ELSE "", required_value, candidate_value, params)
                IN  IF raw_score.raised \/ "none" \in DOMAIN raw_score \/ weight[1] # "num"
                    THEN Ok(0)
                    ELSE Ok(raw_score.value * weight[2])

\* calculate_score_for_dimension(dimension_config, query_criteria,
\* candidate_data): the score, or the exception that leaves the function
calculate_score_for_dimension(dimension_config, query_criteria, candidate_data) ==
    LET enabled == PyGet(dimension_config, "enabled", PyBool(FALSE))
        logic_config == PyGet(dimension_config, "logic", PyNone)
    IN  IF enabled.raised THEN Raise
        ELSE IF ~PyTruthy(enabled.value) THEN Ok(0)
        ELSE IF ~PyTruthy(logic_config.value) THEN Ok(0)
        ELSE IF logic_config.value[1] # "dict" THEN Raise
        ELSE
          LET logic == logic_config.value
              logic_type == PyGet(logic, "type", PyNone).value
              req_path == PyGet(logic, "required_value_path", PyNone).value
              cand_path == PyGet(logic, "candidate_value_path", PyNone).value
              params == PyGet(logic, "params", PyDict(EmptyDict)).value
              weight == PyGet(dimension_config, "weight", PyNum(0)).value
          IN  IF logic_type[1] # "str" \/ logic_type[2] \notin SCORE_FUNCTION_MAP THEN Ok(0)
              ELSE IF (PyTruthy(req_path) /\ req_path[1] # "path") \/ (PyTruthy(cand_path) /\ cand_path[1] # "path")
              THEN Raise
              ELSE
                LET required_value == IF PyTruthy(req_path) THEN _safe_get_value(query_criteria, replace(req_path[2], <<"query", "criteria">>)) ELSE PyNone
                    candidate_value == IF PyTruthy(cand_path) THEN _safe_get_value(candidate_data, replace(cand_path[2], <<"candidate">>)) ELSE PyNone
                    raw_score == score_func(logic_type[2], required_value, candidate_value, params)
                IN  IF raw_score.raised \/ "none" \in DOMAIN raw_score \/ weight[1] # "num"
                    THEN Ok(0)
                    ELSE Ok(raw_score.value * weight[2])

\* the loop over dimensions.items() of the core processor: the total score
\* of one candidate, every dimension scored inside its own try
RECURSIVE score_dimensions(_, _, _)
score_dimensions(dimensions, parsed_data, candidate_data) ==
    IF dimensions = <<>> THEN Ok(0)
    ELSE
      LET dim_score == calculate_score_for_dimension(Head(dimensions), parsed_data, candidate_data)
          rest == score_dimensions(Tail(dimensions), parsed_data, candidate_data)
      IN  Ok((IF dim_score.raised THEN 0 ELSE dim_score.value) + rest.value)

\* the loop over dimensions_config.items() of the query handler: the enabled
\* flag is read outside the try that surrounds the scoring of the dimension
RECURSIVE legacy_score_dimensions(_, _, _)
legacy_score_dimensions(dimensions_config, parsed_query_data, candidate_dict) ==
    IF dimensions_config = <<>> THEN Ok(0)
    ELSE
      LET dim_config == Head(dimensions_config)
          enabled == PyGet(dim_config, "enabled", PyBool(FALSE))
          dim_score == calculate_score_for_dimension(dim_config, parsed_query_data, candidate_dict)
          rest == legacy_score_dimensions(Tail(dimensions_config), parsed_query_data, candidate_dict)
      IN  IF enabled.raised THEN Raise
          ELSE IF rest.raised THEN Raise
          ELSE Ok((IF ~PyTruthy(enabled.value) \/ dim_score.raised THEN 0 ELSE dim_score.value) + rest.value)

\* dict(d) restricted to the keys ks
Pick(d, ks) == [x \in ks |-> d[x]]

\* the logic section of a dimension of each type, as a rule file gives it
LogicOf(type) ==
    CASE type = "range_match" ->
           [type |-> PyStr(type),
            required_value_path |-> PyPath(<<"query", "criteria", "experience_years_min">>),
            candidate_value_path |-> PyPath(<<"candidate", "query_tags", "experience_years">>),
            params |-> PyDict([tolerance_years |-> PyNum(1)])]
      [] type = "exact_match" ->
           [type |-> PyStr(type),
            required_value_path |-> PyPath(<<"query", "criteria", "location">>),
            candidate_value_path |-> PyPath(<<"candidate", "query_tags", "location">>),
            params |-> PyDict(EmptyDict)]
      [] type = "keyword_presence" ->
           [type |-> PyStr(type),
            required_value_path |-> PyPath(<<"query", "criteria", "certifications">>),
            candidate_value_path |-> PyPath(<<"candidate", "query_tags", "certifications">>),
            params |-> PyDict([max_score |-> PyNone])]
      [] OTHER ->
           [type |-> PyStr(type),
            required_value_path |-> PyPath(<<"query", "criteria", "skills">>),
            candidate_value_path |-> PyPath(<<"candidate", "query_tags", "skills_normalized">>),
            params |-> PyDict(EmptyDict)]

\* an enabled dimension of the given logic section
Dimension(l) == PyDict([enabled |-> PyBool(TRUE), logic |-> l, weight |-> PyNum(30)])

\* the rule sets: "rules" scores the overlap of skills; "faulty_rules" also
\* holds a dimension that is null, one whose candidate path is a number and
\* one whose params are null
dimensions_of(sc) ==
    IF Val(sc) = "rules" THEN <<Dimension(PyDict(LogicOf("keyword_overlap")))>>
    ELSE <<PyNone,
           Dimension(PyDict(DictSet(LogicOf("exact_match"), "candidate_value_path", PyNum(1)))),
           Dimension(PyDict(LogicOf("keyword_overlap"))),
           Dimension(PyDict(DictSet(LogicOf("range_match"), "params", PyNone)))>>
RuleSetNames == {"rules", "faulty_rules"}

\* the parsed query "p1" asks for three skills
RequiredSkills == <<"python", "sql", "java">>
ParsedQuery == PyDict([skills |-> PyList(RequiredSkills)])

\* the data of candidate c handed to the scorer: c has the first c % 3 of the
\* skills in its query_tags, but candidate 3 has all three in extracted_info
\* only. The core processor's new query copies them into empty query_tags
\* first (fallback)
candidate_data_of(c, fallback) ==
    LET info_skills == IF c = 3 THEN RequiredSkills ELSE <<>>
        tags_skills == IF c = 3 THEN <<>> ELSE SubSeq(RequiredSkills, 1, c % 3)
        skills_normalized == IF fallback /\ tags_skills = <<>> /\ info_skills # <<>> THEN info_skills ELSE tags_skills
    IN  PyDict([query_tags |-> PyDict([skills_normalized |-> PyList(skills_normalized)]),
                extracted_info |-> PyDict([skills |-> PyList(info_skills)])])

\* a candidate document: candidate 1 carries an external contact id only,
\* candidate 2 a wxid only, candidate 3 neither
wxid(c) == IF c % 2 = 0 THEN Some(200 + c) ELSE None
external_wecom_id(c) == IF c % 4 = 1 THEN Some(100 + c) ELSE None

\* the sum of a candidate's dimension scores, as the core processor takes it
total_score(c, fallback, dims) == score_dimensions(dims, ParsedQuery, candidate_data_of(c, fallback)).value

\* (variant: a candidate is placed before the candidates of equal score)
RECURSIVE insert_by_score_unstable(_, _, _)
insert_by_score_unstable(s, c, score) ==
    IF s = <<>> THEN <<c>>
    ELSE IF score[s[Len(s)]] > score[c]
         THEN Append(s, c)
         ELSE Append(insert_by_score_unstable(SubSeq(s, 1, Len(s) - 1), c, score), s[Len(s)])

\* sorted(scored_list, key=score, reverse=True): descending, and stable.
\* A candidate is placed after the candidates of greater or equal score
RECURSIVE insert_by_score(_, _, _)
insert_by_score(s, c, score) ==
    IF s = <<>> THEN <<c>>
    ELSE IF score[s[Len(s)]] >= score[c]
         THEN Append(s, c)
         ELSE Append(insert_by_score(SubSeq(s, 1, Len(s) - 1), c, score), s[Len(s)])

RECURSIVE sorted_desc(_, _)
sorted_desc(s, score) ==
    IF s = <<>> THEN <<>>
    ELSE insert_by_score(sorted_desc(SubSeq(s, 1, Len(s) - 1), score), s[Len(s)], score)

\* the loop over the candidates of the pool in the core processor: the
\* total score kept with each candidate
RECURSIVE scored_candidates(_, _, _)
scored_candidates(s, fallback, dims) ==
    IF s = <<>> THEN <<>>
    ELSE (Head(s) :> total_score(Head(s), fallback, dims)) @@ scored_candidates(Tail(s), fallback, dims)

\* the pool sorted by the total scores of its candidates
sorted_by_score(s, fallback, dims) ==
    sorted_desc(s, scored_candidates(s, fallback, dims))

\* the loop over the candidates of the pool in the query handler: for each
\* candidate its score, or the exception that left the loop at it
RECURSIVE legacy_scored_candidates(_, _)
legacy_scored_candidates(s, dims) ==
    IF s = <<>> THEN <<>>
    ELSE (Head(s) :> legacy_score_dimensions(dims, ParsedQuery, candidate_data_of(Head(s), FALSE)))
         @@ legacy_scored_candidates(Tail(s), dims)

\* the pool sorted by the scores the loop gave, or the exception that left it
legacy_sorted(s, scored) ==
    IF \E c \in DOMAIN scored : scored[c].raised
    THEN Raise
    ELSE Ok(sorted_desc(s, [c \in DOMAIN scored |-> scored[c].value]))

\* the query handler's scoring of the pool: the exception that leaves the
\* loop over the candidates, or the pool sorted by the scores
legacy_sorted_by_score(s, dims) == legacy_sorted(s, legacy_scored_candidates(s, dims))

\* the dict cached for a shown candidate by the new query, by 'A', and by
\* the legacy pipeline
candidate_details_for_cache(c) ==
    [x \in {"name", "wxid", "external_wecom_id"} |->
        CASE x = "name" -> Some(c) [] x = "wxid" -> wxid(c) [] OTHER -> external_wecom_id(c)]
details(c) ==
    [x \in {"name", "wxid"} |-> IF x = "name" THEN Some(c) ELSE wxid(c)]
cached_results(c) ==
    [x \in {"name", "wxid"} |-> IF x = "name" THEN Some(c) ELSE wxid(c)]

\* the names of a cached page
Names(results) == [i \in 1..Len(results) |-> Val(results[i]["name"])]

\* `a or b` on Optional strings
Or(a, b) == IF ~IsNone(a) THEN a ELSE b

\* what a turn leaves: the cache, the processor's sorted list, its record
Outcome(cache, sorted, rec) == [data |-> cache.data, exp |-> cache.exp, sorted |-> sorted, turn |-> rec]

\* ------------------------------------------------------------------------
\* CoreProcessor._handle_new_query_task
\* ------------------------------------------------------------------------
Parses == {"unparsed", "no_filter", "ok"}

_handle_new_query_task(us, ex, t, k, parse, d, sc, lsc) ==
    LET rec == [NoTurn("new_query", k) EXCEPT !.parse = parse]
    IN  IF parse = "unparsed" \/ parse = "no_filter"
        THEN Outcome(clear_state(us, ex, t, k), lsc, rec)
        ELSE
          LET candidates_pool == find_candidates(d, INITIAL_CANDIDATE_POOL_SIZE, 0)
              sorted_candidates == IF ~IsNone(sc) THEN sorted_by_score(candidates_pool, TRUE, dimensions_of(sc))
                                   ELSE candidates_pool
              top_n_candidates == Slice(sorted_candidates, 0, TOP_N_CANDIDATES)
              for_cache == [i \in 1..Len(top_n_candidates) |-> candidate_details_for_cache(top_n_candidates[i])]
          IN  IF candidates_pool = <<>>
              THEN Outcome(clear_state(us, ex, t, k), lsc,
                           [rec EXCEPT !.finds = 1, !.notice = "no_match_adjust_and_retry"])
              ELSE Outcome(update_state_and_cache_results(us, ex, t, k, STATE_WAITING_SELECTION, Some(for_cache), Some("q1"), Some("p1"), Some(Len(top_n_candidates)), Some(Len(sorted_candidates) > Len(top_n_candidates))),
                           sorted_candidates,
                           [rec EXCEPT !.finds = 1, !.fetched = candidates_pool,
                                       !.pool = sorted_candidates, !.offset = 0,
                                       !.limit = TOP_N_CANDIDATES,
                                       !.page = top_n_candidates,
                                       !.committed = TRUE, !.wrote = TRUE])

\* ------------------------------------------------------------------------
\* CoreProcessor._handle_follow_up_task
\* ------------------------------------------------------------------------
\* a text message: what the handler makes of the text, and the number in it
Msg(text, cmd, idx) == [text |-> text, cmd |-> cmd, idx |-> idx]
Messages ==
    { Msg("resume 1", "resume", 1), Msg("resume 31", "resume", 31),
      Msg("info 1", "info", 1),
      Msg("contact 1", "contact", 1), Msg("contact 2", "contact", 2),
      Msg("contact 3", "contact", 3), Msg("contact 6", "contact", 6),
      Msg("A", "A", 0), Msg("B", "B", 0), Msg("hello", "other", 0) }

\* (variant: the second step files its answer under the first step's key)
contact_steps_misfiled(step) ==
    CASE step = STEP_AWAITING_WORK_LOCATION ->
            [new_step |-> STEP_AWAITING_JOB_CONTENT, info_key |-> "work_location"]
      [] step = STEP_AWAITING_JOB_CONTENT ->
            [new_step |-> STEP_AWAITING_TIME_ARRANGEMENT, info_key |-> "work_location"]
      [] OTHER ->
            [new_step |-> STATE_CONTACT_CANDIDATE_DETAILS_FLOW, info_key |-> "time_arrangement"]

\* for the step the flow is at: the step written next, the key the reply is
\* filed under
contact_steps(step) ==
    CASE step = STEP_AWAITING_WORK_LOCATION ->
            [new_step |-> STEP_AWAITING_JOB_CONTENT, info_key |-> "work_location"]
      [] step = STEP_AWAITING_JOB_CONTENT ->
            [new_step |-> STEP_AWAITING_TIME_ARRANGEMENT, info_key |-> "job_content"]
      [] OTHER ->
            [new_step |-> STATE_CONTACT_CANDIDATE_DETAILS_FLOW, info_key |-> "time_arrangement"]

ContactSteps == {STEP_AWAITING_WORK_LOCATION, STEP_AWAITING_JOB_CONTENT, STEP_AWAITING_TIME_ARRANGEMENT}

\* dict.get(key) as an Optional
Lookup(d, key) == IF key \in DOMAIN d THEN Some(d[key]) ELSE None

\* the reply of a user whose contact flow is at one of its three steps
contact_flow_reply(us, ex, t, k, text, flow, lsc, send_ok) ==
    LET step == flow["step"]
        candidate_external_id == flow["candidate_external_userid"]
        candidate_name == flow["candidate_name"]
        nxt == contact_steps(step)
        c1 == update_contact_flow_step_and_info(us, ex, t, k, nxt.new_step, Some(nxt.info_key), Some(text))
        rec == [NoTurn("contact_reply", k) EXCEPT !.text = text, !.step = step,
                                                  !.wrote = TRUE]
    IN  IF step # STEP_AWAITING_TIME_ARRANGEMENT
        THEN Outcome(c1, lsc, rec)
        ELSE
          LET again == get_contact_flow_state(c1.data, c1.exp, t, k)
              info == DictGet(Val(again), "collected_info", EmptyDict)
              inv_message == [candidate_name |-> candidate_name,
                              external_user_id |-> candidate_external_id,
                              work_location |-> Lookup(info, "work_location"),
                              job_content |-> Lookup(info, "job_content"),
                              time_arrangement |-> Some(text)]
          IN  IF IsNone(again)
              THEN Outcome(c1, lsc, [rec EXCEPT !.raised = TRUE])
              ELSE Outcome(clear_state(c1.data, c1.exp, t, k), lsc,
                           [rec EXCEPT !.invite = Some(inv_message), !.send_ok = send_ok])

\* (variant: 'A' pages through the list the new query left in the processor)
more_full_pool_kept(d, query_criteria, lsc) == [full_pool |-> lsc, finds |-> 0]

\* 'A' with has_more set: the pool is fetched again with the stored criteria
more_full_pool(d, query_criteria, lsc) ==
    [full_pool |-> find_candidates(d, INITIAL_CANDIDATE_POOL_SIZE, 0), finds |-> 1]

\* `if 1 <= selected <= total_sorted: cand = full_sorted[selected-1]`
selected_candidate(full_sorted, selected) ==
    IF 1 <= selected /\ selected <= Len(full_sorted) THEN Some(full_sorted[selected]) ELSE None

\* the command of a user who is past the contact flow's steps
selection_command(us, ex, t, k, msg, d, sc, lsc) ==
    LET last_results == get_last_results(us, ex, t, k)
        query_criteria == get_query_criteria(us, ex, t, k)
        parsed_data == get_parsed_query_data(us, ex, t, k)
        offset == get_query_offset(us, ex, t, k)
        has_more == get_has_more(us, ex, t, k)
        full_sorted == lsc
        total_sorted == Len(full_sorted)
        rec == [NoTurn(msg.cmd, k) EXCEPT !.text = msg.text, !.offset = offset, !.has_more = has_more]
        keep == Same(us, ex)
    IN  IF IsNone(last_results) \/ Val(last_results) = <<>> \/ IsNone(query_criteria)
        THEN Outcome(clear_state(us, ex, t, k), lsc, [rec EXCEPT !.kind = "stale"])
        ELSE CASE msg.cmd = "resume" ->
                \* out of range: resume_path is read before it is bound
                Outcome(keep, lsc, [rec EXCEPT !.raised = ~(1 <= msg.idx /\ msg.idx <= total_sorted),
                                               !.selected = msg.idx,
                                               !.cand = selected_candidate(full_sorted, msg.idx)])
          [] msg.cmd = "info" ->
                Outcome(keep, lsc, [rec EXCEPT !.raised = ~(1 <= msg.idx /\ msg.idx <= total_sorted),
                                               !.selected = msg.idx,
                                               !.cand = selected_candidate(full_sorted, msg.idx)])
          [] msg.cmd = "contact" ->
                IF 1 <= msg.idx /\ msg.idx <= Len(Val(last_results))
                THEN LET candidate_data_from_cache == Val(last_results)[msg.idx]
                         candidate_external_id == Or(DictGet(candidate_data_from_cache, "external_wecom_id", None), DictGet(candidate_data_from_cache, "wxid", None))
                         candidate_name == DictGet(candidate_data_from_cache, "name", None)
                     IN  IF ~IsNone(candidate_external_id) /\ ~IsNone(candidate_name)
                         THEN Outcome(set_contact_flow_state(us, ex, t, k, STEP_AWAITING_WORK_LOCATION, Val(candidate_external_id), Val(candidate_name), k, Some(EmptyDict)),
                                      lsc, [rec EXCEPT !.step = STEP_AWAITING_WORK_LOCATION, !.wrote = TRUE,
                                                       !.selected = msg.idx, !.cand = candidate_name])
                         ELSE Outcome(keep, lsc, [rec EXCEPT !.selected = msg.idx, !.cand = candidate_name, !.notice = "no_contact_id"])
                ELSE Outcome(keep, lsc, [rec EXCEPT !.selected = msg.idx, !.notice = "invalid_index"])
          [] msg.cmd = "A" ->
                IF has_more
                THEN LET got == more_full_pool(d, Val(query_criteria), lsc)
                         full_pool == got.full_pool
                         sorted_full == IF ~IsNone(sc) THEN sorted_by_score(full_pool, FALSE, dimensions_of(sc)) ELSE full_pool
                         start == offset
                         end == offset + TOP_N_CANDIDATES
                         next_page == Slice(sorted_full, start, end)
                         page_details == [i \in 1..Len(next_page) |-> details(next_page[i])]
                         rec1 == [rec EXCEPT !.finds = got.finds, !.fetched = full_pool]
                     IN  IF full_pool = <<>> \/ next_page = <<>>
                         THEN Outcome(clear_state(us, ex, t, k), lsc, [rec1 EXCEPT !.notice = "no_more"])
                         ELSE Outcome(update_state_and_cache_results(us, ex, t, k, STATE_WAITING_SELECTION, Some(page_details), query_criteria, parsed_data, Some(end), Some(Len(sorted_full) > end)),
                                      lsc,
                                      [rec1 EXCEPT !.pool = sorted_full, !.limit = TOP_N_CANDIDATES,
                                                   !.page = next_page, !.committed = TRUE,
                                                   !.wrote = TRUE])
                ELSE Outcome(clear_state(us, ex, t, k), lsc, rec)
          [] msg.cmd = "B" -> Outcome(clear_state(us, ex, t, k), lsc, rec)
          [] OTHER -> Outcome(keep, lsc, rec)

_handle_follow_up_task(us, ex, t, k, msg, d, sc, lsc, send_ok) ==
    LET contact_flow == get_contact_flow_state(us, ex, t, k)
    IN  IF ~IsNone(contact_flow) /\ Truthy(Val(contact_flow))
           /\ DictGet(Val(contact_flow), "step", "") \in ContactSteps
        THEN contact_flow_reply(us, ex, t, k, msg.text, Val(contact_flow), lsc, send_ok)
        ELSE selection_command(us, ex, t, k, msg, d, sc, lsc)

\* _process_message_task_async past the sync command: the phase that was
\* read routes the text
route(current_state, us, ex, t, k, msg, parse, d, sc, lsc, send_ok) ==
        IF current_state = STATE_IDLE
        THEN _handle_new_query_task(us, ex, t, k, parse, d, sc, lsc)
        ELSE IF current_state = STATE_WAITING_SELECTION \/ current_state = STATE_CONTACT_CANDIDATE_DETAILS_FLOW
        THEN _handle_follow_up_task(us, ex, t, k, msg, d, sc, lsc, send_ok)
        ELSE Outcome(clear_state(us, ex, t, k), lsc, NoTurn("unknown_state", k))

_process_message_task_async(us, ex, t, k, msg, parse, d, sc, lsc, send_ok) ==
    route(get_state(us, ex, t, k), us, ex, t, k, msg, parse, d, sc, lsc, send_ok)

\* ------------------------------------------------------------------------
\* Legacy pipeline: query_handler.py and selection_handler.py
\* ------------------------------------------------------------------------
\* _fetch_and_send_candidates from the slicing of the scored pool on: scored
\* is the sorted pool, or the exception that left the scoring loop
send_scored_candidates(us, ex, t, k, lsc, rec1, query_criteria, offset, parsed_query_data, scored) ==
    LET scored_and_sorted_candidates == scored.value
        start_index == offset
        end_index == offset + display_limit
        candidates_to_display == Slice(scored_and_sorted_candidates, start_index, end_index)
        for_cache == [i \in 1..Len(candidates_to_display) |-> cached_results(candidates_to_display[i])]
        next_offset == end_index
        has_more == next_offset < Len(scored_and_sorted_candidates)
    IN  IF scored.raised
        THEN Outcome(Same(us, ex), lsc, [rec1 EXCEPT !.raised = TRUE])
        ELSE IF candidates_to_display # <<>>
        THEN Outcome(update_state_and_cache_results(us, ex, t, k, STATE_WAITING_SELECTION, Some(for_cache), query_criteria, parsed_query_data, Some(next_offset), Some(has_more)),
                     lsc,
                     [rec1 EXCEPT !.pool = scored_and_sorted_candidates, !.limit = display_limit,
                                  !.page = candidates_to_display, !.committed = TRUE,
                                  !.wrote = TRUE])
        ELSE IF offset = 0
        THEN Outcome(clear_state(us, ex, t, k), lsc, [rec1 EXCEPT !.notice = "not_found"])
        ELSE Outcome(Same(us, ex), lsc, rec1)

_fetch_and_send_candidates(us, ex, t, k, d, sc, lsc, rec, query_criteria, offset, parsed_query_data) ==
    LET perform_scoring == ~IsNone(sc)
        fetch_limit == IF perform_scoring THEN initial_pool_size ELSE display_limit
        fetch_offset == IF perform_scoring THEN 0 ELSE offset
        candidates_pool_models == find_candidates(d, fetch_limit, fetch_offset)
    IN  send_scored_candidates(us, ex, t, k, lsc,
            [rec EXCEPT !.finds = 1, !.fetched = candidates_pool_models, !.offset = offset],
            query_criteria, offset, parsed_query_data,
            IF perform_scoring /\ candidates_pool_models # <<>>
            THEN legacy_sorted_by_score(candidates_pool_models, dimensions_of(sc))
            ELSE Ok(candidates_pool_models))

\* the except branch of process_query: an exception that leaves
\* _fetch_and_send_candidates (r) is answered with "internal error, retry
\* later" and the entry is cleared
process_query_except(r, t, k, lsc) ==
    IF r.turn.raised
    THEN Outcome(clear_state(r.data, r.exp, t, k), lsc,
                 [r.turn EXCEPT !.raised = FALSE, !.notice = "internal_error_retry"])
    ELSE r

process_query(us, ex, t, k, parse, d, sc, lsc) ==
    LET rec == [NoTurn("legacy_query", k) EXCEPT !.parse = parse]
        c1 == store_parsed_query_data(us, ex, t, k, Some("p1"))
    IN  IF parse = "no_filter"
        THEN Outcome(clear_state(us, ex, t, k), lsc, rec)
        ELSE process_query_except(
                 _fetch_and_send_candidates(c1.data, c1.exp, t, k, d, sc, lsc, [rec EXCEPT !.wrote = TRUE], Some("q1"), 0, Some("p1")),
                 t, k, lsc)

\* the end of _handle_more_results: an exception that leaves
\* _fetch_and_send_candidates (r) is answered with "error, retry later" and
\* the entry is rewritten as WAITING_SELECTION without results; a call that
\* left the state as it was ends the search
_handle_more_results_except(r, t, k, lsc) ==
    IF r.turn.raised
    THEN Outcome(update_state_and_cache_results(r.data, r.exp, t, k, STATE_WAITING_SELECTION, None, None, None, None, None),
                 lsc, [r.turn EXCEPT !.raised = FALSE, !.wrote = TRUE, !.notice = "error_retry"])
    ELSE IF ~r.turn.committed /\ get_state(r.data, r.exp, t, k) # STATE_IDLE
    THEN Outcome(clear_state(r.data, r.exp, t, k), lsc, r.turn)
    ELSE r

_handle_more_results(us, ex, t, k, d, sc, lsc, rec) ==
    LET query_criteria == get_query_criteria(us, ex, t, k)
        next_offset == get_query_offset(us, ex, t, k)
        parsed_query_data == get_parsed_query_data(us, ex, t, k)
        has_more == get_has_more(us, ex, t, k)
        rec1 == [rec EXCEPT !.offset = next_offset, !.has_more = has_more]
    IN  IF IsNone(query_criteria) \/ IsNone(parsed_query_data)
        THEN Outcome(clear_state(us, ex, t, k), lsc, [rec1 EXCEPT !.kind = "stale"])
        ELSE IF ~has_more
        THEN Outcome(clear_state(us, ex, t, k), lsc, rec1)
        ELSE _handle_more_results_except(
                 _fetch_and_send_candidates(us, ex, t, k, d, sc, lsc, rec1, query_criteria, next_offset, parsed_query_data),
                 t, k, lsc)

_validate_indices(indices, max_index) ==
    /\ indices # <<>>
    /\ \A i \in 1..Len(indices) : 1 <= indices[i] /\ indices[i] <= max_index

\* the texts the legacy handler is given here: 'A', 'B', a number that is
\* out of range, and a text that is no command
LegacyMessages == {Msg("A", "A", 0), Msg("B", "B", 0), Msg("info 6", "info", 6), Msg("hello", "other", 0)}

handle_user_response(us, ex, t, k, msg, d, sc, lsc) ==
    LET cached == get_last_results(us, ex, t, k)
        rec == [NoTurn("legacy_" \o msg.cmd, k) EXCEPT !.text = msg.text]
        existing_data == _get_user_data(us, ex, t, k)
    IN  IF IsNone(cached) \/ Val(cached) = <<>>
        THEN Outcome(clear_state(us, ex, t, k), lsc, [rec EXCEPT !.kind = "stale"])
        ELSE CASE msg.cmd = "A" -> _handle_more_results(us, ex, t, k, d, sc, lsc, rec)
               [] msg.cmd = "B" -> Outcome(clear_state(us, ex, t, k), lsc, rec)
               [] msg.cmd = "info" /\ ~_validate_indices(<<msg.idx>>, Len(Val(cached))) ->
                     Outcome(update_state_and_cache_results(us, ex, t, k, STATE_WAITING_SELECTION, None, None, None, None, None),
                             lsc, [rec EXCEPT !.wrote = TRUE])
               [] OTHER ->
                     IF Found(existing_data)
                     THEN Outcome(update_state_and_cache_results(us, ex, t, k, STATE_WAITING_SELECTION,
                                      DictGet(Val(existing_data), "last_results", None),
                                      DictGet(Val(existing_data), "query_criteria", None),
                                      DictGet(Val(existing_data), "parsed_query_data", None),
                                      Lookup(Val(existing_data), "query_offset"),
                                      Lookup(Val(existing_data), "has_more")),
                                  lsc, [rec EXCEPT !.wrote = TRUE])
                     ELSE Outcome(Same(us, ex), lsc, rec)

\* ------------------------------------------------------------------------
\* The pipelines driven turn by turn, one turn at a time
\* ------------------------------------------------------------------------
TurnInit ==
    /\ user_states = EmptyDict
    /\ expires = EmptyDict
    /\ now = 0
    /\ last = [op |-> "init", key |-> "", arg |-> NoArgs, pre |-> NoArgs]
    /\ last_write = [k \in Keys |-> -1]
    /\ born = [k \in Keys |-> -1]
    /\ links = <<>>
    /\ call = NoCall
    /\ ret = NoCall
    /\ db \in Pools
    /\ store_down = FALSE
    /\ scoring_config \in {None} \cup {Some(n) : n \in RuleSetNames}
    /\ frontend \in {"core", "legacy"}
    /\ _last_sorted_candidates = <<>>
    /\ turn = NoTurn("init", "")
    /\ finds = 0
    /\ replies = <<>>
    /\ tasks = <<>>
    /\ max_workers = 1
    /\ _lock = None
    /\ sorted_of = [k \in ConcKeys |-> <<>>]

\* what a turn that ran to its end leaves
TurnEffect(out) ==
    /\ user_states' = out.data
    /\ expires' = out.exp
    /\ _last_sorted_candidates' = out.sorted
    /\ turn' = out.turn
    /\ finds' = IF out.turn.kind \in {"new_query", "legacy_query"} THEN out.turn.finds
                ELSE finds + out.turn.finds
    /\ replies' = IF out.turn.kind = "contact_reply" THEN Append(replies, out.turn.text)
                  ELSE <<>>

Turn(out) ==
    /\ TurnEffect(out)
    /\ UNCHANGED <<now, last, last_write, born, links, db, store_down, scoring_config, frontend, poolvars, callvars, sorted_of>>

TurnTick ==
    /\ now < MaxTime
    /\ now' = now + 1
    /\ turn' = NoTurn("tick", "")
    /\ UNCHANGED <<user_states, expires, last, last_write, born, links, db, store_down, scoring_config, frontend, _last_sorted_candidates, finds, replies, poolvars, callvars, sorted_of>>

\* the candidate collection changes between two turns
DbChange ==
    /\ \E d \in Pools : (d # db \/ store_down) /\ db' = d
    /\ store_down' = FALSE
    /\ turn' = NoTurn("db", "")
    /\ UNCHANGED <<user_states, expires, now, last, last_write, born, links, scoring_config, frontend, _last_sorted_candidates, finds, replies, poolvars, callvars, sorted_of>>

\* the candidate store stops answering: find_candidates logs the error and
\* returns the empty list it started with
DbFails ==
    /\ ~store_down
    /\ db' = <<>>
    /\ store_down' = TRUE
    /\ turn' = NoTurn("db", "")
    /\ UNCHANGED <<user_states, expires, now, last, last_write, born, links, scoring_config, frontend, _last_sorted_candidates, finds, replies, poolvars, callvars, sorted_of>>

InContactStep(k) ==
    LET contact_flow == get_contact_flow_state(user_states, expires, now, k)
    IN  ~IsNone(contact_flow) /\ DictGet(Val(contact_flow), "step", "") \in ContactSteps

\* '/sync_external_contacts': answered before the phase is read
SyncCommand ==
    /\ frontend = "core"
    /\ \E k \in Keys : turn' = NoTurn("sync", k)
    /\ UNCHANGED <<user_states, expires, now, last, last_write, born, links, db, store_down, scoring_config, frontend, _last_sorted_candidates, finds, replies, poolvars, callvars, sorted_of>>

NewQuery ==
    /\ frontend = "core"
    /\ \E k \in Keys, parse \in Parses :
         /\ get_state(user_states, expires, now, k) = STATE_IDLE
         /\ Turn(_process_message_task_async(user_states, expires, now, k, Msg("query", "other", 0), parse, db, scoring_config, _last_sorted_candidates, TRUE))

ContactReply ==
    /\ frontend = "core"
    /\ \E k \in Keys, msg \in {Msg("A", "A", 0), Msg("hello", "other", 0)}, send_ok \in BOOLEAN :
         /\ InContactStep(k)
         /\ Turn(_process_message_task_async(user_states, expires, now, k, msg, "ok", db, scoring_config, _last_sorted_candidates, send_ok))

Selection ==
    /\ frontend = "core"
    /\ \E k \in Keys, msg \in Messages :
         /\ get_state(user_states, expires, now, k) # STATE_IDLE
         /\ ~InContactStep(k)
         /\ Turn(_process_message_task_async(user_states, expires, now, k, msg, "ok", db, scoring_config, _last_sorted_candidates, TRUE))

LegacyQuery ==
    /\ frontend = "legacy"
    /\ \E k \in Keys, parse \in {"no_filter", "ok"} :
         /\ get_state(user_states, expires, now, k) = STATE_IDLE
         /\ Turn(process_query(user_states, expires, now, k, parse, db, scoring_config, _last_sorted_candidates))

LegacyResponse ==
    /\ frontend = "legacy"
    /\ \E k \in Keys, msg \in LegacyMessages :
         /\ get_state(user_states, expires, now, k) = STATE_WAITING_SELECTION
         /\ Turn(handle_user_response(user_states, expires, now, k, msg, db, scoring_config, _last_sorted_candidates))

TurnNext ==
    \/ TurnTick
    \/ DbChange
    \/ DbFails
    \/ SyncCommand
    \/ NewQuery
    \/ ContactReply
    \/ Selection
    \/ LegacyQuery
    \/ LegacyResponse

TurnSpec == TurnInit /\ [][TurnNext]_vars

\* ------------------------------------------------------------------------
\* The core pipeline behind its thread pool
\* ------------------------------------------------------------------------
WECOM_CORE_PROCESSOR_MAX_WORKERS == 5
WorkerCounts == {1, 2, WECOM_CORE_PROCESSOR_MAX_WORKERS}
ConcMessages == {Msg("query", "other", 0), Msg("A", "A", 0), Msg("B", "B", 0), Msg("", "other", 0)}

ConcInit ==
    /\ user_states = EmptyDict
    /\ expires = EmptyDict
    /\ now = 0
    /\ last = [op |-> "init", key |-> "", arg |-> NoArgs, pre |-> NoArgs]
    /\ last_write = [k \in Keys |-> -1]
    /\ born = [k \in Keys |-> -1]
    /\ links = <<>>
    /\ call = NoCall
    /\ ret = NoCall
    /\ db = [i \in 1..MaxPool |-> i]
    /\ store_down = FALSE
    /\ scoring_config = Some("rules")
    /\ frontend = "core"
    /\ _last_sorted_candidates = <<>>
    /\ turn = NoTurn("init", "")
    /\ finds = 0
    /\ replies = <<>>
    /\ tasks = <<>>
    /\ max_workers \in WorkerCounts
    /\ _lock = None
    /\ sorted_of = [k \in ConcKeys |-> <<>>]

\* handle_ew_message: a text message with content is handed to the pool
handle_ew_message(q, user_id, msg_type, msg) ==
    IF msg_type # "text" \/ msg.text = "" THEN q
    ELSE Append(q, [key |-> user_id, msg |-> msg, pc |-> "queued", current_state |-> ""])

Running(q) == {i \in 1..Len(q) : q[i].pc = "running"}
Pending(q) == {i \in 1..Len(q) : q[i].pc # "done"}

HandleEwMessage ==
    /\ Cardinality(Pending(tasks)) < MaxTasks
    /\ \E k \in ConcKeys, msg_type \in {"text", "image"}, msg \in ConcMessages :
         tasks' = handle_ew_message(SelectSeq(tasks, LAMBDA x : x.pc # "done"), k, msg_type, msg)
    /\ UNCHANGED <<user_states, expires, now, last, last_write, born, links, turnvars, max_workers, _lock, callvars, sorted_of>>

\* a free worker takes the oldest queued task and reads the key's phase
TaskStart ==
    /\ Cardinality(Running(tasks)) < max_workers
    /\ \E i \in 1..Len(tasks) :
         /\ tasks[i].pc = "queued"
         /\ \A j \in 1..(i - 1) : tasks[j].pc # "queued"
         /\ tasks' = [tasks EXCEPT ![i].pc = "running",
                                   ![i].current_state = get_state(user_states, expires, now, tasks[i].key)]
    /\ UNCHANGED <<user_states, expires, now, last, last_write, born, links, turnvars, max_workers, _lock, callvars, sorted_of>>

\* a running task runs the handler its phase selected, on the store as it is
\* by then
TaskFinish ==
    \E i \in Running(tasks) :
        LET out == route(tasks[i].current_state, user_states, expires, now, tasks[i].key, tasks[i].msg, "ok", db, scoring_config, _last_sorted_candidates, TRUE)
            raced == get_state(user_states, expires, now, tasks[i].key) # tasks[i].current_state
        IN  /\ TurnEffect([out EXCEPT !.turn.raced = raced])
            /\ tasks' = [tasks EXCEPT ![i].pc = "done"]
            /\ UNCHANGED <<now, last, last_write, born, links, db, store_down, scoring_config, frontend, max_workers, _lock, callvars, sorted_of>>

ConcNext ==
    \/ HandleEwMessage
    \/ TaskStart
    \/ TaskFinish

ConcSpec == ConcInit /\ [][ConcNext]_vars

\* ------------------------------------------------------------------------
\* Two users of the core pipeline taking turns: one CoreProcessor, one
\* StateManager, the candidate collection changing between the turns
\* ------------------------------------------------------------------------
PairMessages == {Msg("resume 1", "resume", 1), Msg("info 2", "info", 2), Msg("contact 2", "contact", 2), Msg("A", "A", 0), Msg("B", "B", 0)}

\* what the candidate store returns differs from one query to the next
PairPools == {[i \in 1..n |-> i] : n \in {3, 7}} \cup {[i \in 1..n |-> MaxPool + 1 - i] : n \in {3, 7}}

PairInit ==
    /\ user_states = EmptyDict
    /\ expires = EmptyDict
    /\ now = 0
    /\ last = [op |-> "init", key |-> "", arg |-> NoArgs, pre |-> NoArgs]
    /\ last_write = [k \in Keys |-> -1]
    /\ born = [k \in Keys |-> -1]
    /\ links = <<>>
    /\ call = NoCall
    /\ ret = NoCall
    /\ db \in PairPools
    /\ store_down = FALSE
    /\ scoring_config = None
    /\ frontend = "core"
    /\ _last_sorted_candidates = <<>>
    /\ turn = NoTurn("init", "")
    /\ finds = 0
    /\ replies = <<>>
    /\ tasks = <<>>
    /\ max_workers = 1
    /\ _lock = None
    /\ sorted_of = [k \in ConcKeys |-> <<>>]

\* what a new query of key k leaves (out): the turn's effect, and the sorted
\* list of the query kept for the key
PairQueryEffect(k, out) ==
    /\ TurnEffect(out)
    /\ sorted_of' = [sorted_of EXCEPT ![k] = out.turn.pool]

\* a new query of one of the two users
PairQuery ==
    \E k \in ConcKeys :
        /\ get_state(user_states, expires, now, k) = STATE_IDLE
        /\ PairQueryEffect(k, _process_message_task_async(user_states, expires, now, k, Msg("query", "other", 0), "ok", db, scoring_config, _last_sorted_candidates, TRUE))
        /\ UNCHANGED <<now, last, last_write, born, links, db, store_down, scoring_config, frontend, poolvars, callvars>>

\* a command of a user who is choosing from a page
PairSelection ==
    \E k \in ConcKeys, msg \in PairMessages :
        /\ get_state(user_states, expires, now, k) = STATE_WAITING_SELECTION
        /\ Turn(_process_message_task_async(user_states, expires, now, k, msg, "ok", db, scoring_config, _last_sorted_candidates, TRUE))

\* candidates are added to the collection or removed from it
PairDbChange ==
    /\ \E d \in PairPools : d # db /\ db' = d
    /\ turn' = NoTurn("db", "")
    /\ UNCHANGED <<storevars, store_down, scoring_config, frontend, _last_sorted_candidates, finds, replies, poolvars, callvars, sorted_of>>

PairNext ==
    \/ PairQuery
    \/ PairSelection
    \/ PairDbChange

PairSpec == PairInit /\ [][PairNext]_vars

\* ------------------------------------------------------------------------
\* The replies of one user in the contact flow behind the thread pool: a
\* task reads the flow's step with one store call and files its reply with
\* another
\* ------------------------------------------------------------------------
MaxReplies == 4
ReplyTexts == [i \in 1..MaxReplies |-> CASE i = 1 -> "r1" [] i = 2 -> "r2" [] i = 3 -> "r3" [] OTHER -> "r4"]

ReplyInit ==
    /\ user_states = EmptyDict
    /\ expires = EmptyDict
    /\ now = 0
    /\ last = [op |-> "init", key |-> "", arg |-> NoArgs, pre |-> NoArgs]
    /\ last_write = [k \in Keys |-> -1]
    /\ born = [k \in Keys |-> -1]
    /\ links = <<>>
    /\ call = NoCall
    /\ ret = NoCall
    /\ db = [i \in 1..3 |-> i]
    /\ store_down = FALSE
    /\ scoring_config = None
    /\ frontend = "core"
    /\ _last_sorted_candidates = <<>>
    /\ turn = NoTurn("init", "")
    /\ finds = 0
    /\ replies = <<>>
    /\ tasks = <<>>
    /\ max_workers \in {1, 2, WECOM_CORE_PROCESSOR_MAX_WORKERS}
    /\ _lock = None
    /\ sorted_of = [k \in ConcKeys |-> <<>>]

\* the tasks a worker is running
Busy(q) == {i \in 1..Len(q) : q[i].pc \in {"running", "read"}}

\* before any reply: the user's query and the user's 'contact 2', each
\* processed with no other task about
ReplyFlowStarts ==
    /\ tasks = <<>>
    /\ ~InContactStep("k1")
    /\ \E msg \in {Msg("query", "other", 0), Msg("contact 2", "contact", 2)} :
         /\ msg.cmd = "contact" <=> get_state(user_states, expires, now, "k1") = STATE_WAITING_SELECTION
         /\ Turn(_process_message_task_async(user_states, expires, now, "k1", msg, "ok", db, scoring_config, _last_sorted_candidates, TRUE))

\* handle_ew_message hands the user's next text to the pool
ReplyArrives ==
    /\ Len(tasks) < MaxReplies
    /\ InContactStep("k1") \/ tasks # <<>>
    /\ tasks' = handle_ew_message(tasks, "k1", "text", Msg(ReplyTexts[Len(tasks) + 1], "other", 0))
    /\ UNCHANGED <<storevars, turnvars, max_workers, _lock, callvars, sorted_of>>

\* a free worker takes the oldest queued task and reads the key's phase
ReplyTaskStart ==
    /\ Cardinality(Busy(tasks)) < max_workers
    /\ \E i \in 1..Len(tasks) :
         /\ tasks[i].pc = "queued"
         /\ \A j \in 1..(i - 1) : tasks[j].pc # "queued"
         /\ tasks' = [tasks EXCEPT ![i] = [key |-> tasks[i].key, msg |-> tasks[i].msg, pc |-> "running",
                                           current_state |-> get_state(user_states, expires, now, tasks[i].key),
                                           flow |-> None]]
    /\ UNCHANGED <<storevars, turnvars, max_workers, _lock, callvars, sorted_of>>

\* the task is routed: in the contact flow, _handle_follow_up_task reads
\* the flow's step (get_contact_flow_state)
ReplyReadsStep ==
    \E i \in 1..Len(tasks) :
        /\ tasks[i].pc = "running"
        /\ tasks[i].current_state # STATE_IDLE
        /\ InContactStep(tasks[i].key)
        /\ tasks' = [tasks EXCEPT ![i].pc = "read",
                                  ![i].flow = get_contact_flow_state(user_states, expires, now, tasks[i].key)]
        /\ UNCHANGED <<storevars, turnvars, max_workers, _lock, callvars, sorted_of>>

\* the task files its reply under the key of the step it read
\* (update_contact_flow_step_and_info); after the third step it sends the
\* invitation and clears the entry
ReplyFilesAnswer ==
    \E i \in 1..Len(tasks) :
        /\ tasks[i].pc = "read"
        /\ TurnEffect(contact_flow_reply(user_states, expires, now, tasks[i].key, tasks[i].msg.text, Val(tasks[i].flow), _last_sorted_candidates, TRUE))
        /\ tasks' = [tasks EXCEPT ![i].pc = "done"]
        /\ UNCHANGED <<now, last, last_write, born, links, db, store_down, scoring_config, frontend, max_workers, _lock, callvars, sorted_of>>

\* a task that finds the key outside the contact flow's steps: a new query
\* or a command of the selection phase
ReplyOutsideFlow ==
    \E i \in 1..Len(tasks) :
        /\ tasks[i].pc = "running"
        /\ tasks[i].current_state = STATE_IDLE \/ ~InContactStep(tasks[i].key)
        /\ TurnEffect(route(tasks[i].current_state, user_states, expires, now, tasks[i].key, tasks[i].msg, "ok", db, scoring_config, _last_sorted_candidates, TRUE))
        /\ tasks' = [tasks EXCEPT ![i].pc = "done"]
        /\ UNCHANGED <<now, last, last_write, born, links, db, store_down, scoring_config, frontend, max_workers, _lock, callvars, sorted_of>>

ReplyNext ==
    \/ ReplyFlowStarts
    \/ ReplyArrives
    \/ ReplyTaskStart
    \/ ReplyReadsStep
    \/ ReplyFilesAnswer
    \/ ReplyOutsideFlow

ReplySpec == ReplyInit /\ [][ReplyNext]_vars

\* ------------------------------------------------------------------------
\* The turns of the core pipeline call by call: each store call takes
\* StateManager._lock (`with self._lock:`), and the parser, the candidate
\* store and the message service are called between the store calls
\* ------------------------------------------------------------------------
StoreReads == <<"get_contact_flow_state", "get_last_results", "get_query_criteria", "get_parsed_query_data", "get_query_offset", "get_has_more">>
StoreCalls == {"get_state", "update_state_and_cache_results", "clear_state"} \cup {StoreReads[i] : i \in 1..Len(StoreReads)}
IoCalls == {"parse_query_intent", "find_candidates", "send_text_message"}

\* the calls a turn makes after it has read the phase, in the order of the
\* source: a new query, 'A' (more), 'B' (end: the reply is sent before the
\* entry is cleared) and an unrecognised command
calls_after_get_state(current_state, msg) ==
    IF current_state = STATE_IDLE
    THEN <<"parse_query_intent", "find_candidates", "update_state_and_cache_results", "send_text_message">>
    ELSE IF msg.cmd = "A"
    THEN StoreReads \o <<"find_candidates", "update_state_and_cache_results", "send_text_message">>
    ELSE IF msg.cmd = "B"
    THEN StoreReads \o <<"send_text_message", "clear_state">>
    ELSE StoreReads \o <<"send_text_message">>

\* (variant: a store call returns without releasing the lock)
lock_exit_kept(holder) == holder

\* the end of `with self._lock:`: the lock is released
lock_exit(holder) == None

LockMessages == {Msg("query", "other", 0), Msg("A", "A", 0), Msg("B", "B", 0)}

LockInit ==
    /\ user_states = EmptyDict
    /\ expires = EmptyDict
    /\ now = 0
    /\ last = [op |-> "init", key |-> "", arg |-> NoArgs, pre |-> NoArgs]
    /\ last_write = [k \in Keys |-> -1]
    /\ born = [k \in Keys |-> -1]
    /\ links = <<>>
    /\ call = NoCall
    /\ ret = NoCall
    /\ db = [i \in 1..MaxPool |-> i]
    /\ store_down = FALSE
    /\ scoring_config = None
    /\ frontend = "core"
    /\ _last_sorted_candidates = <<>>
    /\ turn = NoTurn("init", "")
    /\ finds = 0
    /\ replies = <<>>
    /\ tasks = <<>>
    /\ max_workers \in {1, 2}
    /\ _lock = None
    /\ sorted_of = [k \in ConcKeys |-> <<>>]

\* handle_ew_message hands a text message of a user to the pool
LockSubmit ==
    /\ Len(tasks) < MaxTasks
    /\ \E k \in ConcKeys, msg \in LockMessages :
         tasks' = handle_ew_message(tasks, k, "text", msg)
    /\ UNCHANGED <<storevars, turnvars, max_workers, _lock, callvars, sorted_of>>

\* a free worker takes the oldest queued task: its first call is get_state
LockTaskStart ==
    /\ Cardinality(Running(tasks)) < max_workers
    /\ \E i \in 1..Len(tasks) :
         /\ tasks[i].pc = "queued"
         /\ \A j \in 1..(i - 1) : tasks[j].pc # "queued"
         /\ tasks' = [tasks EXCEPT ![i] = [key |-> tasks[i].key, msg |-> tasks[i].msg, pc |-> "running",
                                           current_state |-> "", todo |-> <<"get_state">>]]
    /\ UNCHANGED <<storevars, turnvars, max_workers, _lock, callvars, sorted_of>>

\* what is left of a task after the call it was at
AfterCall(task, todo) ==
    [task EXCEPT !.todo = todo, !.pc = IF todo = <<>> THEN "done" ELSE "running"]

\* `with self._lock:` of a store call: the task waits until the lock is free
LockEnter ==
    /\ _lock = None
    /\ sorted_of = [k \in ConcKeys |-> <<>>]
    /\ \E i \in Running(tasks) :
         /\ Head(tasks[i].todo) \in StoreCalls
         /\ _lock' = Some(i)
    /\ UNCHANGED <<storevars, turnvars, tasks, max_workers, callvars, sorted_of>>

\* what the store call f of task i leaves: get_state gives the task its
\* phase and with it the calls to come; a commit or a clear writes what the
\* handler of the task's phase writes (out)
StoreCallEffect(i, f, out) ==
    /\ tasks' = [tasks EXCEPT ![i] =
                   IF f = "get_state"
                   THEN AfterCall([tasks[i] EXCEPT !.current_state = get_state(user_states, expires, now, tasks[i].key)],
                                  calls_after_get_state(get_state(user_states, expires, now, tasks[i].key), tasks[i].msg))
                   ELSE AfterCall(tasks[i], Tail(tasks[i].todo))]
    /\ IF f \in {"update_state_and_cache_results", "clear_state"}
       THEN /\ user_states' = out.data
            /\ expires' = out.exp
       ELSE UNCHANGED <<user_states, expires>>

\* the body of the store call and the end of its `with` block
LockedCallReturns ==
    \E i \in Running(tasks) :
        /\ _lock = Some(i)
        /\ StoreCallEffect(i, Head(tasks[i].todo),
               route(tasks[i].current_state, user_states, expires, now, tasks[i].key, tasks[i].msg, "ok", db, scoring_config, _last_sorted_candidates, TRUE))
        /\ _lock' = lock_exit(_lock)
        /\ UNCHANGED <<now, last, last_write, born, links, turnvars, max_workers, callvars, sorted_of>>

\* a call of the parser, the candidate store or the message service returns
ExternalCallReturns ==
    /\ \E i \in Running(tasks) :
         /\ Head(tasks[i].todo) \in IoCalls
         /\ tasks' = [tasks EXCEPT ![i] = AfterCall(tasks[i], Tail(tasks[i].todo))]
    /\ UNCHANGED <<storevars, turnvars, max_workers, _lock, callvars, sorted_of>>

LockNext ==
    \/ LockSubmit
    \/ LockTaskStart
    \/ LockEnter
    \/ LockedCallReturns
    \/ ExternalCallReturns

LockSpec == LockInit /\ [][LockNext]_vars


\* ------------------------------------------------------------------------
\* The store when it can fill up: several keys, a small maxsize
\* ------------------------------------------------------------------------
effective_maxsize == 2
KeyNames == <<"k1", "k2", "k3", "k4", "k5">>
CacheKeys == {KeyNames[i] : i \in 1..(effective_maxsize + 1)}

Without(lk, k) == SelectSeq(lk, LAMBDA x : x # k)

\* OrderedDict.move_to_end, as TTLCache.__getlink calls it
move_to_end(lk, k) == Append(Without(lk, k), k)

\* what the cache is made of: the entries, their expiry times, and the keys
\* in order of use
Cache(us, ex, lk) == [data |-> us, exp |-> ex, links |-> lk]

\* TTLCache.expire(time): the entries whose time has come are removed
TTLCache_expire(us, ex, lk, t) ==
    LET keep == {x \in DOMAIN us : t < ex[x]}
    IN  Cache([x \in keep |-> us[x]], [x \in keep |-> ex[x]], SelectSeq(lk, LAMBDA x : x \in keep))

\* TTLCache.popitem: after expire, the least recently used entry is removed
TTLCache_popitem(us, ex, lk, t) ==
    LET c == TTLCache_expire(us, ex, lk, t)
    IN  Cache(DictDel(c.data, Head(c.links)), DictDel(c.exp, Head(c.links)), Tail(c.links))

\* (variant: expired entries are removed and nothing else, as in a cache
\* that has no maxsize)
TTLCache_make_room_unbounded(us, ex, lk, t, k) == TTLCache_expire(us, ex, lk, t)

\* what cache[key] = value does before it stores the value: expire, then
\* popitem while a key that is not held would not fit
RECURSIVE TTLCache_make_room(_, _, _, _, _)
TTLCache_make_room(us, ex, lk, t, k) ==
    LET c == TTLCache_expire(us, ex, lk, t)
    IN  IF k \in DOMAIN c.data \/ Cardinality(DOMAIN c.data) + 1 <= effective_maxsize
        THEN c
        ELSE LET p == TTLCache_popitem(c.data, c.exp, c.links, t)
             IN  TTLCache_make_room(p.data, p.exp, p.links, t, k)

\* cache.get(key): a key that is found becomes the most recently used
TTLCache_get_links(us, ex, lk, t, k) ==
    IF TTLCache_contains(us, ex, t, k) THEN move_to_end(lk, k) ELSE lk

\* del cache[key] raises KeyError for a key that is not held or has expired
TTLCache_delitem_raises(us, ex, t, k) == k \notin DOMAIN us \/ ~(t < ex[k])

\* clear_state raises what its del raises
clear_state_raises(us, ex, t, k) ==
    TTLCache_contains(us, ex, t, k) /\ TTLCache_delitem_raises(us, ex, t, k)

CacheInit ==
    /\ user_states = EmptyDict
    /\ expires = EmptyDict
    /\ now = 0
    /\ last = [op |-> "init", key |-> "", evicted |-> {}, raised |-> FALSE]
    /\ last_write = [k \in Keys |-> -1]
    /\ born = [k \in Keys |-> -1]
    /\ links = <<>>
    /\ call = NoCall
    /\ ret = NoCall
    /\ db = <<>>
    /\ store_down = FALSE
    /\ scoring_config = None
    /\ frontend = "core"
    /\ _last_sorted_candidates = <<>>
    /\ turn = NoTurn("init", "")
    /\ finds = 0
    /\ replies = <<>>
    /\ tasks = <<>>
    /\ max_workers = 1
    /\ _lock = None
    /\ sorted_of = [k \in ConcKeys |-> <<>>]

LiveKeys(us, ex, t) == {x \in DOMAIN us : t < ex[x]}

\* history of a call: the method, the key, the live keys it made unreadable
\* other than its own, whether it raised
CacheLast(op, k, res, raised) ==
    last' = [op |-> op, key |-> k,
             evicted |-> (LiveKeys(user_states, expires, now) \ LiveKeys(res.data, res.exp, now)) \ {k},
             raised |-> raised]

\* a method that ends in cache[key] = value: the value is stored in the
\* cache once room was made for it, and the key is the most recently used
CacheWritten(op, k, room, res) ==
    /\ user_states' = res.data
    /\ expires' = res.exp
    /\ links' = move_to_end(room.links, k)
    /\ CacheLast(op, k, res, FALSE)
    /\ UNCHANGED <<now, last_write, born, turnvars, poolvars, callvars, sorted_of>>

\* a method that ends without storing
CacheKept(op, k, res, lk, raised) ==
    /\ user_states' = res.data
    /\ expires' = res.exp
    /\ links' = lk
    /\ CacheLast(op, k, res, raised)
    /\ UNCHANGED <<now, last_write, born, turnvars, poolvars, callvars, sorted_of>>

CacheTick ==
    /\ now < MaxTime
    /\ now' = now + 1
    /\ last' = [op |-> "tick", key |-> "", evicted |-> {}, raised |-> FALSE]
    /\ UNCHANGED <<user_states, expires, last_write, born, links, turnvars, poolvars, callvars, sorted_of>>

CacheGetState ==
    \E k \in CacheKeys :
        CacheKept("get", k, _get_user_data_cache(user_states, expires, now, k),
                  TTLCache_get_links(user_states, expires, links, now, k), FALSE)

CacheUpdateStateAndCacheResults ==
    \E k \in CacheKeys :
        LET room == TTLCache_make_room(user_states, expires, links, now, k)
        IN  CacheWritten("update_state_and_cache_results", k, room,
                         update_state_and_cache_results(room.data, room.exp, now, k, STATE_WAITING_SELECTION, Some(<<"c1">>), Some("q1"), None, Some(5), Some(TRUE)))

CacheUpdateState ==
    \E k \in CacheKeys :
        LET room == TTLCache_make_room(user_states, expires, links, now, k)
        IN  CacheWritten("update_state", k, room,
                         update_state(room.data, room.exp, now, k, STATE_CONTACT_CANDIDATE_DETAILS_FLOW))

CacheClearState ==
    \E k \in CacheKeys :
        LET res == clear_state(user_states, expires, now, k)
        IN  CacheKept("clear_state", k, res,
                      SelectSeq(links, LAMBDA x : x \in DOMAIN res.data),
                      clear_state_raises(user_states, expires, now, k))

CacheNext ==
    \/ CacheTick
    \/ CacheGetState
    \/ CacheUpdateStateAndCacheResults
    \/ CacheUpdateState
    \/ CacheClearState

CacheSpec == CacheInit /\ [][CacheNext]_vars


\* ------------------------------------------------------------------------
\* Certificate levels (src/src/utils/ranking_data.py). The names are written
\* in pinyin, one syllable group per word of the name, so that composing a
\* name is concatenation as in the source:
\*   zhuli- 助理   chuji- 初级   zhongji- 中级   gaoji- 高级
\*   jiaoshouji- 教授级   yiji- 一级   erji- 二级   sanji- 三级   teji- 特级
\*   zhuce- 注册   jianzhushi 建筑师   jianzaoshi 建造师
\*   gongchengshi 工程师   kuaijishi 会计师
\* ------------------------------------------------------------------------
CERTIFICATE_RANKS ==
    << [category |-> "jianzhushi",
        values |-> ("zhuli-jianzhushi" :> 1 @@ "zhongji-jianzhushi" :> 2 @@ "gaoji-jianzhushi" :> 3
                    @@ "jiaoshouji-gaoji-jianzhushi" :> 4)],
       [category |-> "zhuce-jianzaoshi",
        values |-> ("yiji-zhuce-jianzaoshi" :> 1 @@ "yiji-jianzaoshi" :> 1
                    @@ "erji-zhuce-jianzaoshi" :> 2 @@ "erji-jianzaoshi" :> 2)],
       [category |-> "gongchengshi",
        values |-> ("zhuli-gongchengshi" :> 1 @@ "gongchengshi" :> 2 @@ "zhongji-gongchengshi" :> 2
                    @@ "gaoji-gongchengshi" :> 3 @@ "jiaoshouji-gaoji-gongchengshi" :> 4)] >>

CHINESE_LEVELS == <<"zhuli-", "zhongji-", "gaoji-">>
NUMERIC_LEVELS == <<"yiji-", "erji-", "sanji-">>
\* LEVEL_INFO: the system and the index (from 0) of each level keyword
LEVEL_INFO ==
    [level \in Range(CHINESE_LEVELS) \cup {"chuji-"} \cup Range(NUMERIC_LEVELS) |->
        IF level = "chuji-" THEN [system |-> "chinese", index |-> 0]
        ELSE IF level \in Range(CHINESE_LEVELS)
        THEN [system |-> "chinese", index |-> (CHOOSE i \in 1..Len(CHINESE_LEVELS) : CHINESE_LEVELS[i] = level) - 1]
        ELSE [system |-> "numeric", index |-> (CHOOSE i \in 1..Len(NUMERIC_LEVELS) : NUMERIC_LEVELS[i] = level) - 1]]

\* the names of a table that the modifier selects for a target value
selected_names(category_values, target_value, modifier) ==
    {name \in DOMAIN category_values :
        IF modifier = Some("ge") THEN category_values[name] >= target_value
        ELSE IF modifier = Some("gt") THEN category_values[name] > target_value
        ELSE category_values[name] = target_value}

\* 1. the specific rule: the first table that holds the full name decides.
\* None when no table holds it
RECURSIVE specific_rule(_, _, _)
specific_rule(tables, full_cert_name, modifier) ==
    IF tables = <<>> THEN None
    ELSE
      LET category_values == Head(tables).values
          target_value == category_values[full_cert_name]
          matching_levels_names == selected_names(category_values, target_value, modifier)
      IN  IF full_cert_name \in DOMAIN category_values
          THEN IF matching_levels_names # {} THEN Some(matching_levels_names)
               ELSE Some({full_cert_name})
          ELSE specific_rule(Tail(tables), full_cert_name, modifier)

registrable_professions == {"jianzhushi", "jianzaoshi", "gongchengshi"}

\* 2. the generic rule, for a level keyword of LEVEL_INFO
generic_rule(base_name, level_keyword, modifier) ==
    LET info == LEVEL_INFO[level_keyword]
        current_index == info.index
        source_list == IF info.system = "chinese" THEN CHINESE_LEVELS ELSE NUMERIC_LEVELS
        target_indices == IF modifier = Some("ge") THEN current_index..(Len(source_list) - 1)
                          ELSE IF modifier = Some("gt") THEN (current_index + 1)..(Len(source_list) - 1)
                          ELSE {current_index}
        target_levels == {source_list[i + 1] : i \in {j \in target_indices : 0 <= j /\ j < Len(source_list)}}
        generated_names == {level \o base_name : level \in target_levels}
        registered_names == {level \o "zhuce-" \o base_name : level \in target_levels} \cup {"zhuce-" \o base_name}
    IN  IF target_levels # {}
        THEN IF base_name \in registrable_professions THEN generated_names \cup registered_names
             ELSE generated_names
        ELSE {level_keyword \o base_name}

\* (variant: the generic rule is tried before the tables)
get_matching_levels_generic_first(base_name, level_keyword, modifier) ==
    LET full_cert_name == IF ~IsNone(level_keyword) THEN Val(level_keyword) \o base_name ELSE base_name
        specific == specific_rule(CERTIFICATE_RANKS, full_cert_name, modifier)
    IN  IF ~IsNone(level_keyword) /\ Val(level_keyword) \in DOMAIN LEVEL_INFO
        THEN generic_rule(base_name, Val(level_keyword), modifier)
        ELSE IF ~IsNone(specific) THEN Val(specific)
        ELSE {full_cert_name}

\* get_matching_levels(base_name, level_keyword, modifier): the set of the
\* names of the list it returns
get_matching_levels(base_name, level_keyword, modifier) ==
    LET full_cert_name == IF ~IsNone(level_keyword) THEN Val(level_keyword) \o base_name ELSE base_name
        specific == specific_rule(CERTIFICATE_RANKS, full_cert_name, modifier)
    IN  IF ~IsNone(specific) THEN Val(specific)
        ELSE IF ~IsNone(level_keyword) /\ Val(level_keyword) \in DOMAIN LEVEL_INFO
        THEN generic_rule(base_name, Val(level_keyword), modifier)
        ELSE {full_cert_name}

\* ------------------------------------------------------------------------
\* Functions called on their own
\* ------------------------------------------------------------------------
MaxRank == 5
MaxScore == 2

CallInit ==
    /\ user_states = EmptyDict
    /\ expires = EmptyDict
    /\ now = 0
    /\ last = [op |-> "init", key |-> "", arg |-> NoArgs, pre |-> NoArgs]
    /\ last_write = [k \in Keys |-> -1]
    /\ born = [k \in Keys |-> -1]
    /\ links = <<>>
    /\ call = NoCall
    /\ ret = NoCall
    /\ db = <<>>
    /\ store_down = FALSE
    /\ scoring_config = None
    /\ frontend = "core"
    /\ _last_sorted_candidates = <<>>
    /\ turn = NoTurn("init", "")
    /\ finds = 0
    /\ replies = <<>>
    /\ tasks = <<>>
    /\ max_workers = 1
    /\ _lock = None
    /\ sorted_of = [k \in ConcKeys |-> <<>>]

Returned(c, r) ==
    /\ call' = c
    /\ ret' = r
    /\ UNCHANGED <<storevars, turnvars, poolvars, sorted_of>>

\* sorted(scored_list, key=lambda x: x.score, reverse=True) on a pool of n
\* candidates, numbered in the order they were fetched, with any scores
Sorted ==
    /\ call = NoCall
    /\ \E n \in 0..MaxRank :
           \E score \in [1..n -> 0..MaxScore] :
               LET pool == [i \in 1..n |-> i]
               IN  Returned([fn |-> "sorted", pool |-> pool, score |-> score],
                            sorted_desc(pool, score))

LogicTypes == SCORE_FUNCTION_MAP \cup {"fuzzy_match"}
LogicKeys == {"type", "required_value_path", "candidate_value_path", "params"}
\* logic sections: complete ones, ones without a type, with a type that is
\* not a string, with a path that is not a string, with params that are not
\* a dict or that hold max_score: null, an empty one, None and a string
LogicConfigs ==
    {PyDict(LogicOf(ty)) : ty \in LogicTypes}
    \cup {PyDict(Pick(LogicOf(ty), LogicKeys \ {"type"})) : ty \in {"keyword_overlap"}}
    \cup {PyDict(DictSet(LogicOf(ty), "type", PyNone)) : ty \in {"keyword_overlap"}}
    \cup {PyDict(DictSet(LogicOf(ty), "candidate_value_path", PyNum(1))) : ty \in {"exact_match", "fuzzy_match"}}
    \cup {PyDict(DictSet(LogicOf(ty), "params", PyNone)) : ty \in {"range_match", "fuzzy_match"}}
    \cup {PyDict(DictSet(LogicOf(ty), "params", PyDict([max_score |-> PyNone]))) : ty \in {"keyword_overlap"}}
    \cup {PyDict(EmptyDict), PyNone, PyStr("keyword_overlap")}

DimensionKeys == {"enabled", "logic", "weight"}
\* dimension configs: any of the three keys present or not, and None
DimensionConfigs ==
    {PyNone} \cup
    UNION {{PyDict(Pick([enabled |-> e, logic |-> l, weight |-> w], ks)) :
                e \in {PyBool(TRUE), PyBool(FALSE)}, l \in LogicConfigs, w \in {PyNum(30), PyNone}} :
           ks \in SUBSET DimensionKeys}

\* parsed queries
QueryCriteria ==
    {PyDict([skills |-> PyList(<<"Python", "sql">>), certifications |-> PyList(<<"pmp">>),
             experience_years_min |-> PyNum(3), location |-> PyStr("Shanghai")]),
     PyDict(EmptyDict)}

\* candidate data handed to the scorer
CandidateData ==
    {PyDict([query_tags |-> PyDict([skills_normalized |-> PyList(<<"python">>), certifications |-> PyList(<<"pmp">>),
                                    experience_years |-> PyNum(5), location |-> PyStr("shanghai")]),
             extracted_info |-> PyDict(EmptyDict)]),
     PyDict([query_tags |-> PyDict([skills_normalized |-> PyList(<<"sql", "python">>),
                                    experience_years |-> PyNum(1), location |-> PyStr("beijing")]),
             extracted_info |-> PyDict(EmptyDict)]),
     PyDict([query_tags |-> PyDict(EmptyDict), extracted_info |-> PyDict(EmptyDict)])}

\* calculate_score_for_dimension(dimension_config, query_criteria, candidate_data)
CalculateScoreForDimension ==
    /\ call = NoCall
    /\ \E dimension_config \in DimensionConfigs, query_criteria \in QueryCriteria, candidate_data \in CandidateData :
           Returned([fn |-> "calculate_score_for_dimension", dimension_config |-> dimension_config,
                     query_criteria |-> query_criteria, candidate_data |-> candidate_data],
                    calculate_score_for_dimension(dimension_config, query_criteria, candidate_data))

\* the dimensions a rule set is made of here
RuleDimensions ==
    {Dimension(PyDict(LogicOf(ty))) : ty \in {"keyword_overlap", "range_match", "fuzzy_match"}}
    \cup {Dimension(PyDict(DictSet(LogicOf("exact_match"), "candidate_value_path", PyNum(1)))),
          Dimension(PyDict(DictSet(LogicOf("range_match"), "params", PyNone))),
          Dimension(PyStr("keyword_overlap")),
          PyDict([logic |-> PyDict(LogicOf("keyword_overlap")), weight |-> PyNum(30)]),
          PyDict([enabled |-> PyBool(TRUE), weight |-> PyNum(30)]),
          PyNone}
RuleSets == {<<>>} \cup {<<a>> : a \in RuleDimensions} \cup {<<a, b>> : a, b \in RuleDimensions}

\* the scoring of one candidate by the core processor
ScoreCandidate ==
    /\ call = NoCall
    /\ \E dimensions \in RuleSets, parsed_data \in QueryCriteria, candidate_data \in CandidateData :
           Returned([fn |-> "score_dimensions", dimensions |-> dimensions,
                     parsed_data |-> parsed_data, candidate_data |-> candidate_data],
                    score_dimensions(dimensions, parsed_data, candidate_data))

\* the names and the modifiers get_matching_levels is called with
BaseNames == {"jianzhushi", "jianzaoshi", "zhuce-jianzaoshi", "gongchengshi", "kuaijishi"}
LevelKeywords == {None} \cup {Some(l) : l \in DOMAIN LEVEL_INFO \cup {"jiaoshouji-gaoji-", "teji-"}}
Modifiers == {None, Some("ge"), Some("gt"), Some("eq"), Some("le")}

\* get_matching_levels(base_name, level_keyword, modifier)
GetMatchingLevels ==
    /\ call = NoCall
    /\ \E base_name \in BaseNames, level_keyword \in LevelKeywords, modifier \in Modifiers :
           Returned([fn |-> "get_matching_levels", base_name |-> base_name,
                     level_keyword |-> level_keyword, modifier |-> modifier],
                    [levels |-> get_matching_levels(base_name, level_keyword, modifier)])

\* the params a rule file gives a range_match dimension: the base score, the
\* bonus per year and the factor of the maximum, each given or left out
\* (hundredths)
RangeParams ==
    UNION {{PyDict(Pick([exact_match_score |-> PyNum(b), bonus_rate_per_year |-> PyNum(r), max_score_factor |-> PyNum(f)], ks)) :
                b \in {100, 200, 0}, r \in {5, 20, 0}, f \in {150, 100}} :
           ks \in SUBSET {"exact_match_score", "bonus_rate_per_year", "max_score_factor"}}
MaxYears == 8
RequiredYears == {PyNone, PyNum(3)}
CandidateYears == {PyNone} \cup {PyNum(n) : n \in 0..MaxYears}

\* calculate_range_match_score(required_value, candidate_value, params)
CalculateRangeMatchScore ==
    /\ call = NoCall
    /\ \E required_value \in RequiredYears, candidate_value \in CandidateYears, params \in RangeParams :
           Returned([fn |-> "calculate_range_match_score", required_value |-> required_value,
                     candidate_value |-> candidate_value, params |-> params],
                    calculate_range_match_score(required_value, candidate_value, params))

\* the params a rule file gives a keyword dimension: the score per match and
\* the maximum, each given or left out (hundredths)
KeywordParams ==
    UNION {{PyDict(Pick([score_per_match |-> PyNum(m), max_score |-> PyNum(x)], ks)) :
                m \in {100, 50}, x \in {100, 200, 50}} :
           ks \in SUBSET {"score_per_match", "max_score"}}
RequiredLists == {PyNone, PyList(<<>>), PyList(<<"python">>), PyList(<<"Python", "sql">>)}
CandidateLists == {PyNone, PyList(<<>>), PyList(<<"python">>), PyList(<<"sql", "python", "java">>)}

\* calculate_keyword_overlap_score(required_list, candidate_list, params)
CalculateKeywordOverlapScore ==
    /\ call = NoCall
    /\ \E required_list \in RequiredLists, candidate_list \in CandidateLists, params \in KeywordParams :
           Returned([fn |-> "calculate_keyword_overlap_score", required_list |-> required_list,
                     candidate_list |-> candidate_list, params |-> params],
                    calculate_keyword_overlap_score(required_list, candidate_list, params))

\* calculate_keyword_presence_score(required_list, candidate_list, params)
CalculateKeywordPresenceScore ==
    /\ call = NoCall
    /\ \E required_list \in RequiredLists, candidate_list \in CandidateLists, params \in KeywordParams :
           Returned([fn |-> "calculate_keyword_presence_score", required_list |-> required_list,
                     candidate_list |-> candidate_list, params |-> params],
                    calculate_keyword_presence_score(required_list, candidate_list, params))

CallNext ==
    \/ CalculateScoreForDimension
    \/ CalculateRangeMatchScore
    \/ CalculateKeywordOverlapScore
    \/ CalculateKeywordPresenceScore
    \/ ScoreCandidate
    \/ GetMatchingLevels
    \/ Sorted

CallSpec == CallInit /\ [][CallNext]_vars


\* ------------------------------------------------------------------------
\* Properties of the store
\* ------------------------------------------------------------------------
Live(k) == TTLCache_contains(user_states, expires, now, k)

\* every getter reports "no data" for k
NoData(k) ==
    /\ get_state(user_states, expires, now, k) = STATE_IDLE
    /\ get_last_results(user_states, expires, now, k) = None
    /\ get_query_criteria(user_states, expires, now, k) = None
    /\ get_parsed_query_data(user_states, expires, now, k) = None
    /\ get_contact_flow_state(user_states, expires, now, k) = None
    /\ get_query_offset(user_states, expires, now, k) = 0
    /\ get_has_more(user_states, expires, now, k) = FALSE

\* C1: for a key that is absent from the store or whose entry has expired,
\* get_state returns IDLE and every other getter returns its no-data value,
\* and calling the getters creates no entry: the cache is left as it was.
C1_MissReadsAsNoData ==
    /\ [](\A k \in Keys : ~Live(k) => NoData(k))
    /\ [][last'.op = "get" => user_states' = user_states /\ expires' = expires]_vars

\* the getters ran on a key whose entry is still held but has expired
C1_Witness ==
    /\ last.op = "get"
    /\ last.key \in DOMAIN user_states
    /\ ~Live(last.key)
    /\ user_states[last.key]["state"] # STATE_IDLE
    /\ last.arg.state = STATE_IDLE

\* C2: an entry last written at time t is unreadable at every time >= t + TTL
\* when no write to the key happened in between, with no clear and no sweeper.
C2_ExpiredEntryUnreadable ==
    \A k \in Keys :
        (last_write[k] >= 0 /\ now >= last_write[k] + effective_ttl) => NoData(k)

\* the expired entry is still held by the cache, with data in it
C2_Witness ==
    \E k \in Keys :
        /\ last_write[k] >= 0
        /\ now >= last_write[k] + effective_ttl
        /\ k \in DOMAIN user_states
        /\ "last_results" \in DOMAIN user_states[k]
        /\ user_states[k]["state"] = STATE_WAITING_SELECTION

\* C3: update_state_and_cache_results called with parsed_query_data omitted on
\* a key that holds a live entry with a stored parsed_query_data leaves
\* get_parsed_query_data returning that stored value, whatever else is passed.
C3_OmittedParsedDataPreserved ==
    [][\A k \in Keys :
        (/\ last'.op = "update_state_and_cache_results"
         /\ last'.key = k
         /\ IsNone(last'.arg.parsed_query_data)
         /\ Live(k)
         /\ "parsed_query_data" \in DOMAIN user_states[k])
        => get_parsed_query_data(user_states', expires', now', k) = user_states[k]["parsed_query_data"]]_vars

\* the call omitted parsed_query_data, found a live entry, replaced state,
\* results and criteria, and the parsed data is still there
C3_Witness ==
    /\ last.op = "update_state_and_cache_results"
    /\ IsNone(last.arg.parsed_query_data)
    /\ last.pre.live
    /\ last.pre.state # last.arg.state
    /\ ~IsNone(last.arg.results)
    /\ get_parsed_query_data(user_states, expires, now, last.key) = Some("p1")

\* C4: every write to a key's entry at time t restarts its expiry clock: the
\* entry is readable at every time before t + TTL, and expires at t + TTL,
\* also when it was first inserted more than TTL ago.
C4_WriteRestartsExpiryClock ==
    \A k \in Keys :
        (last_write[k] >= 0 /\ now < last_write[k] + effective_ttl) =>
            /\ Live(k)
            /\ expires[k] = last_write[k] + effective_ttl

\* an entry rewritten by update_contact_flow_step_and_info is readable at a
\* time at which the expiry set by its first insertion has passed
C4_Witness ==
    \E k \in Keys :
        /\ Live(k)
        /\ born[k] >= 0
        /\ now >= born[k] + effective_ttl
        /\ last.op = "tick"
        /\ get_state(user_states, expires, now, k) = STATE_CONTACT_CANDIDATE_DETAILS_FLOW
        /\ "job_content" \in Answers(user_states, expires, now, k)

\* C10: after set_contact_flow_state the key is in the contact flow and its
\* sub-state holds exactly the given step and candidate and the given
\* collected_info, or an empty one when omitted, whatever the key held before.
C10_ContactFlowInstalledFresh ==
    last.op = "set_contact_flow_state" =>
        /\ get_state(user_states, expires, now, last.key) = STATE_CONTACT_CANDIDATE_DETAILS_FLOW
        /\ get_contact_flow_state(user_states, expires, now, last.key) =
             Some([flow |-> STATE_CONTACT_CANDIDATE_DETAILS_FLOW,
                   step |-> last.arg.step,
                   candidate_external_userid |-> last.arg.candidate,
                   candidate_name |-> last.arg.candidate,
                   hr_sender_userid |-> last.key,
                   collected_info |-> IF IsNone(last.arg.collected_info) THEN EmptyDict
                                      ELSE Val(last.arg.collected_info)])

\* the call found the key in the contact flow with answers collected, and
\* was given no collected_info
C10_Witness ==
    /\ last.op = "set_contact_flow_state"
    /\ last.pre.state = STATE_CONTACT_CANDIDATE_DETAILS_FLOW
    /\ last.pre.answers = {"work_location", "job_content"}
    /\ IsNone(last.arg.collected_info)
    /\ Answers(user_states, expires, now, last.key) = {}

\* C11: update_contact_flow_step_and_info on a key that is absent, expired or
\* in a phase other than the contact flow changes nothing: no entry is created
\* and the entries held and their expiry times are as before. On a key in the
\* contact flow it sets the step to new_step and files the answer under
\* info_key exactly when a key and a value are both given; the other answers,
\* the candidate and the other fields of the entry are as before.
C11_StepUpdateOnlyInContactFlow ==
    [][last'.op = "update_contact_flow_step_and_info" =>
        LET k == last'.key
            a == last'.arg
            both == ~IsNone(a.info_key_to_update) /\ ~IsNone(a.info_value)
        IN  IF ~InContactFlow(user_states, expires, now, k)
            THEN user_states' = user_states /\ expires' = expires
            ELSE LET d0 == user_states[k]
                     d1 == user_states'[k]
                     f0 == IF "contact_flow_data" \in DOMAIN d0 THEN Val(d0["contact_flow_data"]) ELSE EmptyDict
                     f1 == Val(d1["contact_flow_data"])
                     info0 == DictGet(f0, "collected_info", EmptyDict)
                     info1 == DictGet(f1, "collected_info", EmptyDict)
                 IN  /\ TTLCache_contains(user_states', expires', now', k)
                     /\ f1["step"] = a.new_step
                     /\ DOMAIN f1 \ {"step", "collected_info"} = DOMAIN f0 \ {"step", "collected_info"}
                     /\ \A x \in DOMAIN f0 \ {"step", "collected_info"} : f1[x] = f0[x]
                     /\ info1 = (IF both THEN DictSet(info0, Val(a.info_key_to_update), Val(a.info_value)) ELSE info0)
                     /\ DOMAIN d1 = DOMAIN d0 \cup {"contact_flow_data"}
                     /\ \A x \in DOMAIN d0 \ {"contact_flow_data"} : d1[x] = d0[x]]_vars

\* the call was made on a key whose entry is held in the contact flow with
\* an answer collected but has expired, and the held entry is as it was
C11_Witness ==
    /\ last.op = "update_contact_flow_step_and_info"
    /\ ~last.pre.live
    /\ ~IsNone(last.arg.info_key_to_update)
    /\ ~IsNone(last.arg.info_value)
    /\ last.key \in DOMAIN user_states
    /\ user_states[last.key]["state"] = STATE_CONTACT_CANDIDATE_DETAILS_FLOW
    /\ "contact_flow_data" \in DOMAIN user_states[last.key]
    /\ DOMAIN Val(user_states[last.key]["contact_flow_data"])["collected_info"] = {"work_location"}

\* ------------------------------------------------------------------------
\* Properties of the turns
\* ------------------------------------------------------------------------
\* what the store holds for the key of the last turn, as the getters see it
StoredOffset == get_query_offset(user_states, expires, now, turn.key)
StoredHasMore == get_has_more(user_states, expires, now, turn.key)
StoredNames ==
    LET r == get_last_results(user_states, expires, now, turn.key)
    IN  IF IsNone(r) THEN <<>> ELSE Names(Val(r))

\* C5: with a scored pool of 12 and a display limit of 5 the pages are
\* candidates[0:5], [5:10], [10:12] and the state stored after them holds
\* (next_offset, has_more) = (5, true), (10, true), (12, false); and the stored
\* next offset never exceeds the size of the scored pool.
C5_PagesOfTwelve ==
    turn.committed =>
        /\ StoredOffset <= Len(turn.pool)
        /\ (Len(turn.pool) = 12 /\ turn.limit = 5 /\ turn.offset = 0) =>
               /\ turn.page = SubSeq(turn.pool, 1, 5)
               /\ <<StoredOffset, StoredHasMore>> = <<5, TRUE>>
        /\ (Len(turn.pool) = 12 /\ turn.limit = 5 /\ turn.offset = 5) =>
               /\ turn.page = SubSeq(turn.pool, 6, 10)
               /\ <<StoredOffset, StoredHasMore>> = <<10, TRUE>>
        /\ (Len(turn.pool) = 12 /\ turn.limit = 5 /\ turn.offset = 10) =>
               /\ turn.page = SubSeq(turn.pool, 11, 12)
               /\ <<StoredOffset, StoredHasMore>> = <<12, FALSE>>

\* the third page of a pool of 12 was shown by 'A' and the store holds
\* next offset 15
C5_ThirdPageStored ==
    /\ turn.kind = "A"
    /\ turn.committed
    /\ Len(turn.pool) = 12
    /\ turn.offset = 10
    /\ turn.page = SubSeq(turn.pool, 11, 12)
    /\ <<StoredOffset, StoredHasMore>> = <<15, FALSE>>

\* C6: the page a turn shows and caches is the elements of its sorted pool at
\* indices [offset, offset + limit), and the has_more it stores is
\* (offset + limit < size of the pool).
C6_PageIsSliceOfSortedPool ==
    turn.committed =>
        LET n == Len(turn.pool)
            upto == IF turn.offset + turn.limit < n THEN turn.offset + turn.limit ELSE n
        IN  /\ Len(turn.page) = upto - turn.offset
            /\ \A i \in 1..Len(turn.page) : turn.page[i] = turn.pool[turn.offset + i]
            /\ StoredNames = turn.page
            /\ StoredHasMore = (turn.offset + turn.limit < n)

\* 'A' showed the short last page of a scored pool of 12, whose order is
\* not the order the store returned
C6_Witness ==
    /\ turn.kind = "A"
    /\ turn.committed
    /\ turn.offset = 10
    /\ Len(turn.pool) = 12
    /\ turn.pool # turn.fetched
    /\ Len(StoredNames) = 2
    /\ ~StoredHasMore

C9_ContactFlowCollectsInOrder ==
    turn.kind = "contact_reply" =>
        LET flow == get_contact_flow_state(user_states, expires, now, turn.key)
        IN  /\ turn.step = STEP_AWAITING_WORK_LOCATION =>
                 /\ Len(replies) = 1
                 /\ ~IsNone(flow)
                 /\ Val(flow)["step"] = STEP_AWAITING_JOB_CONTENT
                 /\ Val(flow)["collected_info"] = [x \in {"work_location"} |-> replies[1]]
            /\ turn.step = STEP_AWAITING_JOB_CONTENT =>
                 /\ Len(replies) = 2
                 /\ ~IsNone(flow)
                 /\ Val(flow)["step"] = STEP_AWAITING_TIME_ARRANGEMENT
                 /\ Val(flow)["collected_info"] =
                        [x \in {"work_location", "job_content"} |->
                            IF x = "work_location" THEN replies[1] ELSE replies[2]]
            /\ turn.step = STEP_AWAITING_TIME_ARRANGEMENT =>
                 /\ Len(replies) = 3
                 /\ ~turn.raised
                 /\ ~Live(turn.key)
                 /\ get_state(user_states, expires, now, turn.key) = STATE_IDLE
                 /\ ~IsNone(turn.invite)
                 /\ Val(turn.invite).work_location = Some(replies[1])
                 /\ Val(turn.invite).job_content = Some(replies[2])
                 /\ Val(turn.invite).time_arrangement = Some(replies[3])

\* the third reply was taken, the send to the candidate failed, and the
\* three replies were not all the same text
C9_Witness ==
    /\ turn.kind = "contact_reply"
    /\ turn.step = STEP_AWAITING_TIME_ARRANGEMENT
    /\ ~turn.send_ok
    /\ Len(replies) = 3
    /\ replies[1] # replies[2]
    /\ replies[2] = replies[3]
    /\ get_state(user_states, expires, now, turn.key) = STATE_IDLE

\* C13: with no scoring rule set no candidate is reordered: the first page
\* and every 'show more' page is the slice [offset, offset + limit) of the
\* candidates in the order the store returns them, a first page is stored
\* with has_more set exactly when the store holds candidates beyond it, and a
\* 'show more' that finds has_more set shows the next slice when there is one,
\* so that the pages one after the other give the store's order.
C13_UnscoredPagesFollowRetrievalOrder ==
    IsNone(scoring_config) =>
        /\ turn.committed =>
              turn.page = Slice(db, turn.offset, turn.offset + turn.limit)
        /\ (turn.kind \in {"new_query", "legacy_query"} /\ turn.committed) =>
              StoredHasMore = (Len(db) > turn.limit)
        /\ (turn.kind \in {"A", "legacy_A"} /\ turn.has_more
               /\ Slice(db, turn.offset, turn.offset + TOP_N_CANDIDATES) # <<>>) =>
              turn.committed

\* with no rule set and 12 candidates in the store, the legacy pipeline
\* showed candidates 1 to 5 and stored that there are no more
C13_UnscoredFirstPageEndsSearch ==
    /\ IsNone(scoring_config)
    /\ turn.kind = "legacy_query"
    /\ turn.committed
    /\ Len(db) = 12
    /\ turn.page = <<1, 2, 3, 4, 5>>
    /\ turn.fetched = <<1, 2, 3, 4, 5>>
    /\ StoredOffset = 5
    /\ ~StoredHasMore

\* the turns that fetch candidates and rank them
ScoredTurns == {"new_query", "A", "legacy_query", "legacy_A"}

\* the ranking of what the turn fetched when the dimensions that fail are
\* left out of the rule set, and the page of it at the turn's offset
SoundPool == sorted_by_score(turn.fetched, turn.kind = "new_query", dimensions_of(Some("rules")))
SoundPage == Slice(SoundPool, turn.offset, turn.offset + TOP_N_CANDIDATES)

\* C16: when the scoring of a dimension fails with an exception for a
\* candidate, the dimension counts 0 in the candidate's total, the other
\* dimensions are summed, every candidate of the pool is scored, and the
\* turn completes: it shows its page of the ranking and commits its state.
C16_FailingDimensionCountsZero ==
    (turn.kind \in ScoredTurns /\ scoring_config = Some("faulty_rules") /\ SoundPage # <<>>) =>
        /\ turn.pool = SoundPool
        /\ turn.page = SoundPage
        /\ turn.committed
        /\ get_state(user_states, expires, now, turn.key) = STATE_WAITING_SELECTION

\* the core processor ranked twelve candidates with the faulty rule set and
\* showed the first page of the ranking by skills
C16_CoreTurnCompletes ==
    /\ frontend = "core"
    /\ turn.kind = "new_query"
    /\ scoring_config = Some("faulty_rules")
    /\ Len(turn.fetched) = 12
    /\ turn.pool = SoundPool
    /\ turn.pool # turn.fetched
    /\ turn.page = SoundPage
    /\ turn.committed

\* the texts that ask the user to try again after an error
RetryNotices == {"db_error_retry", "internal_error_retry", "error_retry"}

\* C17: when the query of the candidate store fails during a turn, on a new
\* query or on 'A', the turn ends with the key's entry cleared, so that the
\* key is IDLE and never left in WAITING_SELECTION, and the user is sent a
\* message asking to retry.
C17_FailedFetchClearsAndAsksRetry ==
    (turn.kind \in ScoredTurns /\ store_down /\ turn.finds > 0) =>
        /\ ~TTLCache_contains(user_states, expires, now, turn.key)
        /\ get_state(user_states, expires, now, turn.key) = STATE_IDLE
        /\ turn.notice \in RetryNotices

\* the store failed on the 'A' of a search that had more to show: the entry
\* was cleared and the user was told that there are no more candidates
C17_FailedShowMoreSaysNoMore ==
    /\ turn.kind = "A"
    /\ store_down
    /\ turn.finds > 0
    /\ turn.has_more
    /\ ~TTLCache_contains(user_states, expires, now, turn.key)
    /\ turn.notice = "no_more"

\* ------------------------------------------------------------------------
\* Properties of the thread pool
\* ------------------------------------------------------------------------
\* C8: turns for the same key are processed one at a time: while a turn for
\* a key is between its first read and its last write of the key's entry, no
\* other turn for that key is executing, whatever the arrival order and the
\* size of the worker pool.
C8_OneTurnPerKeyAtATime ==
    \A i, j \in Running(tasks) : i # j => tasks[i].key # tasks[j].key

\* a new query wrote its first page over an entry that another turn for
\* the same key had written since this turn read the phase as idle
C8_StaleRouteWritten ==
    /\ turn.kind = "new_query"
    /\ turn.raced
    /\ turn.committed
    /\ max_workers = WECOM_CORE_PROCESSOR_MAX_WORKERS

\* ------------------------------------------------------------------------
\* Properties of the store when it can fill up
\* ------------------------------------------------------------------------
\* C12: clear_state(key) leaves the key without a readable entry whatever the
\* entry held, raises nothing also when the key is absent or expired, leaves
\* every other key's entry and expiry time as they were, and called a second
\* time changes nothing more; after it get_state(key) is IDLE.
C12_ClearRemovesAndIsIdempotent ==
    /\ [](\A k \in CacheKeys :
            LET c1 == clear_state(user_states, expires, now, k)
                c2 == clear_state(c1.data, c1.exp, now, k)
            IN  /\ c2 = c1
                /\ ~clear_state_raises(user_states, expires, now, k)
                /\ ~clear_state_raises(c1.data, c1.exp, now, k)
                /\ get_state(c1.data, c1.exp, now, k) = STATE_IDLE)
    /\ [][last'.op = "clear_state" =>
            LET k == last'.key
            IN  /\ ~last'.raised
                /\ ~TTLCache_contains(user_states', expires', now', k)
                /\ get_state(user_states', expires', now', k) = STATE_IDLE
                /\ get_last_results(user_states', expires', now', k) = None
                /\ \A j \in CacheKeys \ {k} :
                     /\ j \in DOMAIN user_states' <=> j \in DOMAIN user_states
                     /\ j \in DOMAIN user_states =>
                            user_states'[j] = user_states[j] /\ expires'[j] = expires[j]]_vars

\* clear_state was called on a key whose entry had expired and is still
\* held, while another key holds a live entry in the contact flow
C12_Witness ==
    /\ last.op = "clear_state"
    /\ last.key \in DOMAIN user_states
    /\ \E j \in CacheKeys \ {last.key} :
         /\ TTLCache_contains(user_states, expires, now, j)
         /\ get_state(user_states, expires, now, j) = STATE_CONTACT_CANDIDATE_DETAILS_FLOW

CacheWriters == {"update_state", "update_state_and_cache_results"}

\* C18: after any sequence of store operations the store holds one entry and
\* one link per held key and at most maxsize entries, live or not; a write
\* always leaves its key readable, and makes at most one other live entry
\* unreadable to do so.
C18_AtMostMaxSizeEntries ==
    /\ Cardinality(DOMAIN user_states) <= effective_maxsize
    /\ Cardinality(LiveKeys(user_states, expires, now)) <= effective_maxsize
    /\ DOMAIN expires = DOMAIN user_states
    /\ Len(links) = Cardinality(DOMAIN user_states)
    /\ Range(links) = DOMAIN user_states
    /\ last.op \in CacheWriters =>
          /\ ~last.raised
          /\ TTLCache_contains(user_states, expires, now, last.key)
          /\ Cardinality(last.evicted) <= 1

\* a write for a key that was not held found the store full of live
\* entries, and one of them is gone
C18_Witness ==
    /\ last.op = "update_state_and_cache_results"
    /\ Cardinality(last.evicted) = 1
    /\ last.evicted \cap DOMAIN user_states = {}
    /\ Cardinality(LiveKeys(user_states, expires, now)) = effective_maxsize
    /\ get_state(user_states, expires, now, last.key) = STATE_WAITING_SELECTION

\* ------------------------------------------------------------------------
\* Properties of the functions
\* ------------------------------------------------------------------------
\* position of a candidate in a list
IndexOf(s, c) == CHOOSE i \in 1..Len(s) : s[i] = c

\* C14: for every pool and every assignment of total scores the ranked list
\* is a permutation of the pool in order of non-increasing score, candidates
\* of equal score keep the order they had in the pool, and ranking the same
\* pool with the same scores again gives the same list.
C14_RankingIsStableDescending ==
    call.fn = "sorted" =>
        /\ Len(ret) = Len(call.pool)
        /\ Range(ret) = Range(call.pool)
        /\ \A i, j \in 1..Len(ret) :
             i < j =>
               /\ call.score[ret[i]] >= call.score[ret[j]]
               /\ call.score[ret[i]] = call.score[ret[j]] =>
                      IndexOf(call.pool, ret[i]) < IndexOf(call.pool, ret[j])
        /\ sorted_desc(call.pool, call.score) = ret

\* a pool of five was ranked in which the last candidate scores highest
\* and the first and third candidate tie below it
C14_Witness ==
    /\ call.fn = "sorted"
    /\ Len(call.pool) = 5
    /\ call.score[5] > call.score[1]
    /\ call.score[1] = call.score[3]
    /\ call.score[2] < call.score[1]
    /\ ret[1] = 5
    /\ IndexOf(ret, 1) < IndexOf(ret, 3)

\* the dimension configs of claim C15
Disabled(dc) == dc[1] = "dict" /\ ("enabled" \notin DOMAIN dc[2] \/ ~PyTruthy(dc[2]["enabled"]))
NoLogic(dc) == dc[1] = "dict" /\ "logic" \notin DOMAIN dc[2]
UnknownType(dc) ==
    /\ dc[1] = "dict"
    /\ "logic" \in DOMAIN dc[2]
    /\ dc[2]["logic"][1] = "dict"
    /\ \/ "type" \notin DOMAIN dc[2]["logic"][2]
       \/ dc[2]["logic"][2]["type"][1] # "str"
       \/ dc[2]["logic"][2]["type"][2] \notin SCORE_FUNCTION_MAP
Scoreless(dc) == Disabled(dc) \/ NoLogic(dc) \/ UnknownType(dc)

AskedName == IF ~IsNone(call.level_keyword) THEN Val(call.level_keyword) \o call.base_name ELSE call.base_name
TablesOf(name) == {i \in 1..Len(CERTIFICATE_RANKS) : name \in DOMAIN CERTIFICATE_RANKS[i].values}
InGenericSystem == ~IsNone(call.level_keyword) /\ Val(call.level_keyword) \in DOMAIN LEVEL_INFO
\* the names ranked above (TRUE) or below (FALSE) the asked name by the rule
\* that applies: the table that holds it, else its generic system
RankedFrom(above) ==
    IF TablesOf(AskedName) # {}
    THEN LET values == CERTIFICATE_RANKS[CHOOSE i \in TablesOf(AskedName) : TRUE].values
         IN  {n \in DOMAIN values : IF above THEN values[n] > values[AskedName] ELSE values[n] < values[AskedName]}
    ELSE LET info == LEVEL_INFO[Val(call.level_keyword)]
             source_list == IF info.system = "chinese" THEN CHINESE_LEVELS ELSE NUMERIC_LEVELS
         IN  {source_list[i] \o call.base_name :
                 i \in {j \in 1..Len(source_list) : IF above THEN j - 1 > info.index ELSE j - 1 < info.index}}

\* C19: for every base name and level keyword whose full name is ranked, in
\* a table or by a generic keyword system, get_matching_levels with modifier
\* ge returns a set that holds the full name and every name ranked above it
\* by the rule that applies, and none ranked below it.
C19_GeHoldsNameAndAllAbove ==
    (call.fn = "get_matching_levels" /\ call.modifier = Some("ge") /\ (TablesOf(AskedName) # {} \/ InGenericSystem)) =>
        /\ AskedName \in ret.levels
        /\ RankedFrom(TRUE) \subseteq ret.levels
        /\ RankedFrom(FALSE) \cap ret.levels = {}

\* get_matching_levels('工程师', '中级', 'ge') returned a set with 中级工程师
\* and 高级工程师 and without 助理工程师
C19_EngineerExample ==
    /\ call.fn = "get_matching_levels"
    /\ call.base_name = "gongchengshi" /\ call.level_keyword = Some("zhongji-") /\ call.modifier = Some("ge")
    /\ {"zhongji-gongchengshi", "gaoji-gongchengshi"} \subseteq ret.levels
    /\ "zhuli-gongchengshi" \notin ret.levels

\* C20: when a table holds the composed full name, get_matching_levels
\* returns the names of that table alone whose ordinal is >=, > or = the
\* full name's for ge, gt and any other modifier, and the full name alone
\* when there are none.
C20_TableAloneDecides ==
    (call.fn = "get_matching_levels" /\ TablesOf(AskedName) # {}) =>
        LET values == CERTIFICATE_RANKS[CHOOSE i \in TablesOf(AskedName) : TRUE].values
            chosen == {n \in DOMAIN values :
                          CASE call.modifier = Some("ge") -> values[n] >= values[AskedName]
                            [] call.modifier = Some("gt") -> values[n] > values[AskedName]
                            [] OTHER -> values[n] = values[AskedName]}
        IN  /\ Cardinality(TablesOf(AskedName)) = 1
            /\ ret.levels = IF chosen = {} THEN {AskedName} ELSE chosen

\* gt on the top ordinal of the engineers' table returned the full name alone
C20_Witness ==
    /\ call.fn = "get_matching_levels"
    /\ call.base_name = "gongchengshi" /\ call.level_keyword = Some("jiaoshouji-gaoji-") /\ call.modifier = Some("gt")
    /\ ret.levels = {"jiaoshouji-gaoji-gongchengshi"}


\* a call of calculate_range_match_score with a candidate value that is not
\* below the required one
RangeCallAtOrAbove ==
    /\ call.fn = "calculate_range_match_score"
    /\ call.required_value[1] = "num" /\ call.candidate_value[1] = "num"
    /\ call.candidate_value[2] >= call.required_value[2]
BaseOf(params) == Param(params, "exact_match_score", 100)[2]
BonusOf(params) == Param(params, "bonus_rate_per_year", 5)[2]
FactorOf(params) == Param(params, "max_score_factor", 150)[2]
\* the score of the same call with the candidate value one year lower
OneYearLess ==
    calculate_range_match_score(call.required_value, PyNum(call.candidate_value[2] - 1), call.params).value

NothingRequired ==
    /\ call.fn \in {"calculate_keyword_overlap_score", "calculate_keyword_presence_score"}
    /\ ~PyTruthy(call.required_list)
\* the max_score a params map sets, in ten-thousandths
ConfiguredMax(params) == params[2]["max_score"][2] * 100

\* C22: with an empty or absent required list both keyword functions return
\* the maximum score of the dimension, whatever the candidate list is: the
\* configured max_score when one is set, and the full score 1.0 otherwise.
C22_NothingRequiredGivesMaximum ==
    NothingRequired =>
        /\ ~ret.raised
        /\ ret.value = (IF "max_score" \in DOMAIN call.params[2] THEN ConfiguredMax(call.params) ELSE Scale)

\* the presence function, nothing required, max_score: 2.0 and a candidate
\* that holds keywords: the configured maximum is returned
C22_PresenceGivesConfiguredMaximum ==
    /\ call.fn = "calculate_keyword_presence_score"
    /\ ~PyTruthy(call.required_list)
    /\ PyTruthy(call.candidate_list)
    /\ "max_score" \in DOMAIN call.params[2]
    /\ ConfiguredMax(call.params) = 2 * Scale
    /\ ret.value = 2 * Scale

\* a turn that was routed to a handler for a key that had an entry: a
\* command of the selection phase or a reply of the contact flow
FollowUpTurns ==
    {"resume", "info", "contact", "A", "other", "contact_reply",
     "legacy_A", "legacy_info", "legacy_other"}

\* C23: every turn processed for a key whose entry is live, and that does
\* not clear the entry, rewrites it, so that the entry expires a full TTL
\* after the turn: resume, info, contact and unrecognised commands as well
\* as 'show more'.
C23_EveryTurnRestartsExpiry ==
    (turn.kind \in FollowUpTurns /\ Live(turn.key)) =>
        expires[turn.key] = now + effective_ttl

\* an unrecognised command in the legacy pipeline, later than the query:
\* the entry is rewritten and expires a full TTL after the turn
C23_LegacyUnrecognisedCommandRestartsExpiry ==
    /\ turn.kind = "legacy_other"
    /\ turn.wrote
    /\ now > 0
    /\ Live(turn.key)
    /\ expires[turn.key] = now + effective_ttl
    /\ StoredNames # <<>>

\* ------------------------------------------------------------------------
\* Properties of the store's lock
\* ------------------------------------------------------------------------
\* the tasks that are in a call of the parser, the candidate store or the
\* message service, and the tasks that are at a store call
InExternalCall == {i \in Running(tasks) : Head(tasks[i].todo) \in IoCalls}
AtStoreCall == {i \in Running(tasks) : Head(tasks[i].todo) \in StoreCalls}

\* C24: the store's lock is held only inside a single store call: no task
\* holds it while a candidate-store query, a parser call or a message send
\* is in progress, and a task that is not at a store call does not hold it,
\* so a task at a store call finds the lock free or held by a task that is
\* itself inside a store call.
C24_LockHeldOnlyInsideStoreCall ==
    /\ \A i \in InExternalCall : _lock # Some(i)
    /\ \A i \in 1..Len(tasks) : _lock = Some(i) => i \in AtStoreCall

\* one task is in a query of the candidate store for its key while a task
\* of another key is inside a store call
C24_Witness ==
    \E i \in InExternalCall, j \in AtStoreCall :
        /\ Head(tasks[i].todo) = "find_candidates"
        /\ tasks[i].key # tasks[j].key
        /\ _lock = Some(j)
        /\ Head(tasks[j].todo) = "update_state_and_cache_results"

\* ------------------------------------------------------------------------
\* Properties of the entry of a key that is choosing from a page
\* ------------------------------------------------------------------------
HasPageAndCriteria(k) ==
    /\ ~IsNone(get_last_results(user_states, expires, now, k))
    /\ Val(get_last_results(user_states, expires, now, k)) # <<>>
    /\ ~IsNone(get_query_criteria(user_states, expires, now, k))

\* C25: in every reachable state a key whose phase is WAITING_SELECTION has
\* a non-empty cached last_results list and a stored query_criteria; no
\* handler path commits WAITING_SELECTION while dropping them.
C25_WaitingSelectionHasPageAndCriteria ==
    \A k \in Keys :
        get_state(user_states, expires, now, k) = STATE_WAITING_SELECTION => HasPageAndCriteria(k)

\* the legacy handler has answered an out-of-range index: the key is still
\* choosing, and its page, criteria and has_more flag are gone
C25_IndexReplyDroppedPage ==
    \E k \in Keys :
        /\ turn.kind = "legacy_info"
        /\ turn.key = k
        /\ get_state(user_states, expires, now, k) = STATE_WAITING_SELECTION
        /\ IsNone(get_last_results(user_states, expires, now, k))
        /\ IsNone(get_query_criteria(user_states, expires, now, k))
        /\ get_query_offset(user_states, expires, now, k) = 0
        /\ ~get_has_more(user_states, expires, now, k)

\* ------------------------------------------------------------------------
\* Properties of two users taking turns
\* ------------------------------------------------------------------------
\* C26: conversations are isolated: the candidate a resume or info command
\* with index X returns to a key is the X-th candidate of the sorted list of
\* that key's own latest query, whatever another key has queried or
\* commanded in between.
C26_SelectionFromOwnQuery ==
    (turn.kind \in {"resume", "info"} /\ ~turn.raised) =>
        turn.cand = selected_candidate(sorted_of[turn.key], turn.selected)

\* a key has queried, the other key has queried later and got other
\* candidates, and the first key's resume command has been answered
C26_OtherKeyQueriedBetween ==
    /\ turn.kind = "resume"
    /\ ~turn.raised
    /\ \E other \in ConcKeys \ {turn.key} :
         /\ sorted_of[other] # <<>>
         /\ sorted_of[other] = _last_sorted_candidates
         /\ sorted_of[other][1] # sorted_of[turn.key][1]
    /\ sorted_of[turn.key] # <<>>

\* ------------------------------------------------------------------------
\* Properties of the index numbers of a page
\* ------------------------------------------------------------------------
\* the numbers a page turn displayed next to its candidates: 1.. on the
\* first page, offset + 1.. on a later page
DisplayedNumbers(page_turn) ==
    {page_turn.offset + i : i \in 1..Len(page_turn.page)}
PageTurn(t) == t.kind \in {"new_query", "A"} /\ t.committed
IndexCommand(t) == t.kind \in {"resume", "info", "contact"}

\* C27: on every page, first or later, each index number displayed next to
\* a candidate is accepted by the resume, info and contact commands and
\* selects the candidate displayed under that number.
C27_DisplayedIndexSelectsDisplayedCandidate ==
    [][(/\ PageTurn(turn)
        /\ IndexCommand(turn')
        /\ turn'.key = turn.key
        /\ turn'.selected \in DisplayedNumbers(turn))
       => (/\ ~turn'.raised
           /\ turn'.cand = Some(turn.page[turn'.selected - turn.offset]))]_vars

\* on the second page 'contact 1' has resolved to the candidate displayed
\* as number 6, while 'resume 1' and 'info 1' resolve to candidate number 1
C27_SameIndexTwoCandidates ==
    /\ turn.kind = "contact"
    /\ turn.offset = 2 * TOP_N_CANDIDATES
    /\ turn.selected = 1
    /\ turn.cand = Some(_last_sorted_candidates[TOP_N_CANDIDATES + 1])
    /\ selected_candidate(_last_sorted_candidates, turn.selected) = Some(_last_sorted_candidates[1])
    /\ _last_sorted_candidates[TOP_N_CANDIDATES + 1] # _last_sorted_candidates[1]

\* ------------------------------------------------------------------------
\* Properties of an index that is out of range
\* ------------------------------------------------------------------------
\* a resume or info command whose number selects no candidate: in the core
\* pipeline a number outside the sorted list, in the legacy pipeline a
\* number outside the cached page
OutOfRangeTurn(t) ==
    \/ t.kind \in {"resume", "info"} /\ IsNone(t.cand)
    \/ t.kind = "legacy_info"

\* C28: a resume or info command whose index is a number outside the range
\* of available candidates is answered with an error or usage reply and
\* leaves the key's entry unchanged in WAITING_SELECTION; the turn never
\* ends through an exception that leaves the user without a reply.
C28_OutOfRangeIndexAnsweredEntryKept ==
    [][OutOfRangeTurn(turn') =>
          /\ ~turn'.raised
          /\ turn'.key \in DOMAIN user_states'
          /\ turn'.key \in DOMAIN user_states
          /\ user_states'[turn'.key] = user_states[turn'.key]
          /\ user_states'[turn'.key]["state"] = STATE_WAITING_SELECTION]_vars

\* 'resume 31' with fewer than 31 candidates in the sorted list: the turn
\* has ended in the exception, the entry is as it was
C28_ResumeOutOfRangeRaised ==
    /\ turn.kind = "resume"
    /\ turn.selected > Len(_last_sorted_candidates)
    /\ turn.raised
    /\ Live(turn.key)
    /\ user_states[turn.key]["state"] = STATE_WAITING_SELECTION

\* ------------------------------------------------------------------------
\* Properties of the contact flow's answers
\* ------------------------------------------------------------------------
\* the answers that are collected when the flow is at a step
AnswersAt(step) ==
    CASE step = STEP_AWAITING_WORK_LOCATION -> {}
      [] step = STEP_AWAITING_JOB_CONTENT -> {"work_location"}
      [] OTHER -> {"work_location", "job_content"}

CollectedInfo(k) ==
    DictGet(Val(get_contact_flow_state(user_states, expires, now, k)), "collected_info", EmptyDict)
FlowStep(k) ==
    DictGet(Val(get_contact_flow_state(user_states, expires, now, k)), "step", "")

\* C29: in every reachable state where a key is in CONTACT_FLOW at one of
\* its steps, the set of collected answers matches the step (none at
\* awaiting_work_location, work_location at awaiting_job_content,
\* work_location and job_content at awaiting_time_arrangement), and every
\* reply taken since the flow started is stored under exactly one key: there
\* are as many answers as replies and each answer is one of the replies, so
\* no reply has replaced an earlier answer. For every arrival pattern of
\* the user's messages.
C29_AnswersMatchStepAndReplies ==
    \A k \in Keys :
        InContactStep(k) =>
            /\ DOMAIN CollectedInfo(k) = AnswersAt(FlowStep(k))
            /\ Cardinality(DOMAIN CollectedInfo(k)) = Len(replies)
            /\ \A key \in DOMAIN CollectedInfo(k) :
                  \E i \in 1..Len(replies) : replies[i] = CollectedInfo(k)[key]

\* two replies were taken while the flow was at its first step: the second
\* reply has replaced the first as the work location
C29_SecondReplyReplacedFirst ==
    /\ InContactStep("k1")
    /\ FlowStep("k1") = STEP_AWAITING_JOB_CONTENT
    /\ replies = <<ReplyTexts[1], ReplyTexts[2]>>
    /\ CollectedInfo("k1") = ("work_location" :> ReplyTexts[2])

\* ------------------------------------------------------------------------
\* Properties of the list the certificate filter is built from
\* ------------------------------------------------------------------------
\* C30: for every base name and every level keyword, the alias 'chuji-'
\* (初级) included, get_matching_levels returns a non-empty list, and when
\* the modifier is eq, ge, absent or unrecognised the list holds the
\* composed full name level_keyword + base_name itself.
C30_NonEmptyAndHoldsAskedName ==
    call.fn = "get_matching_levels" =>
        /\ ret.levels # {}
        /\ call.modifier # Some("gt") => AskedName \in ret.levels

\* get_matching_levels with the alias keyword and modifier eq returned the
\* name of the level the alias stands for, and not the name that was asked
C30_AliasEqReturnsOtherName ==
    /\ call.fn = "get_matching_levels"
    /\ call.level_keyword = Some("chuji-") /\ call.modifier = Some("eq")
    /\ ret.levels # {}
    /\ "zhuli-" \o call.base_name \in ret.levels
    /\ AskedName \notin ret.levels

=========================================================================
